---- MODULE Spec2Model ----
(***************************************************************************)
(* A model of the tldraw agent glue: the agent endpoint (POST), the plan   *)
(* parser and validator (extractJsonObject, validatePlan), the prompt      *)
(* shape's run() with runAgent, and the action applier                     *)
(* (applyAgentActions) working on the canvas document.                     *)
(*                                                                         *)
(* JavaScript values are records of one shape, tagged with their type.     *)
(* Numbers are exact rationals [n |-> numerator, d |-> denominator].       *)
(* Short strings (ids, tags of the action vocabulary) are TLA+ strings;    *)
(* the user's message, whose length matters, is a run-length encoded       *)
(* string: a sequence of runs [c |-> class, n |-> count].                  *)
(***************************************************************************)
EXTENDS Integers, Sequences, FiniteSets, TLC

\* ------------------------------------------------------------------ bounds

\* Prompt shapes on the canvas (each with its own component state).
NumPrompts == 2
\* Longest action list of a plan the agent is let to answer with.
MaxActions == 2

\* ------------------------------------------------------- program constants

\* route.ts: body.message.length > 20_000
MAX_MESSAGE_LENGTH == 20000
\* constants/agent.ts
MAX_SHAPES_FOR_AGENT == 300
\* route.ts buildPrompt: shapes.slice(0, 200)
PROMPT_SHAPES_SLICE == 200

\* ------------------------------------------------------------- rationals

RECURSIVE GCD(_, _)
GCD(a, b) == IF b = 0 THEN a ELSE GCD(b, a % b)

Abs(a) == IF a < 0 THEN -a ELSE a

\* The rational n/d in lowest terms with a positive denominator (d # 0).
Q(n, d) ==
  LET g == GCD(Abs(n), Abs(d))
      s == IF d < 0 THEN -1 ELSE 1
  IN  [n |-> (s * n) \div g, d |-> (s * d) \div g]

QInt(i) == [n |-> i, d |-> 1]
QSub(a, b) == Q(a.n * b.d - b.n * a.d, a.d * b.d)
QDiv(a, b) == Q(a.n * b.d, a.d * b.n)
QLe(a, b) == a.n * b.d <= b.n * a.d
QMin(a, b) == IF QLe(a, b) THEN a ELSE b
QMax(a, b) == IF QLe(a, b) THEN b ELSE a
QIsZero(a) == a.n = 0
QZero == QInt(0)
QOne == QInt(1)
QHalf == Q(1, 2)

\* ------------------------------------------------------ JavaScript values

\* Every value is a record of the same fields, of which the tag t says which
\* one holds the payload: b a boolean, q a number, s a short string, m a
\* run-length encoded string, x a text, a the elements of an array, o the
\* fields of an object.
Undefined ==
  [t |-> "undefined", b |-> FALSE, q |-> [n |-> 0, d |-> 1], s |-> "", m |-> << >>,
   x |-> << >>, a |-> << >>, o |-> << >>]
JNull == [Undefined EXCEPT !.t = "null"]
JBool(b) == [Undefined EXCEPT !.t = "bool", !.b = b]
JNum(q) == [Undefined EXCEPT !.t = "num", !.q = q]
JStr(s) == [Undefined EXCEPT !.t = "str", !.s = s]
\* a string kept run-length encoded (the request's message)
JText(m) == [Undefined EXCEPT !.t = "text", !.m = m]
\* a string that holds a text (the agent's stdout echoed in an error body)
JRawText(x) == [Undefined EXCEPT !.t = "rawtext", !.x = x]
JArr(a) == [Undefined EXCEPT !.t = "arr", !.a = a]
JObj(o) == [Undefined EXCEPT !.t = "obj", !.o = o]

\* typeof value
TypeOf(x) ==
  CASE x.t = "undefined" -> "undefined"
    [] x.t = "bool" -> "boolean"
    [] x.t = "num" -> "number"
    [] x.t \in {"str", "text", "rawtext"} -> "string"
    [] OTHER -> "object"

\* Array.isArray(value)
IsArray(x) == x.t = "arr"

\* isObject(value): !!value && typeof value === "object" && !Array.isArray(value)
isObject(x) == x.t = "obj"

\* value == null (null or undefined)
IsNullish(x) == x.t \in {"null", "undefined"}

\* key in object
HasKey(o, k) == o.t = "obj" /\ k \in DOMAIN o.o

\* object.key: undefined for an absent key and for a key of a primitive
Get(o, k) == IF HasKey(o, k) THEN o.o[k] ELSE Undefined

\* !value
IsFalsy(x) ==
  \/ x.t \in {"undefined", "null"}
  \/ (x.t = "bool" /\ ~x.b)
  \/ (x.t = "num" /\ x.q.n = 0)
  \/ (x.t = "str" /\ x.s = "")
  \/ (x.t = "text" /\ x.m = << >>)
  \/ (x.t = "rawtext" /\ x.x = << >>)

\* a string value equal to the short string s
IsStrEq(x, s) == x.t = "str" /\ x.s = s

\* ------------------------------------------- run-length encoded strings

\* n copies of a non-whitespace character, n copies of a whitespace one
Chars(n) == IF n = 0 THEN << >> ELSE <<[c |-> "x", n |-> n]>>
Spaces(n) == IF n = 0 THEN << >> ELSE <<[c |-> " ", n |-> n]>>

RECURSIVE StrLen(_)
\* string.length
StrLen(s) == IF s = << >> THEN 0 ELSE Head(s).n + StrLen(Tail(s))

RECURSIVE TrimStart(_)
TrimStart(s) ==
  IF s = << >> THEN s
  ELSE IF Head(s).c = " " THEN TrimStart(Tail(s)) ELSE s

RECURSIVE TrimEnd(_)
TrimEnd(s) ==
  IF s = << >> THEN s
  ELSE IF s[Len(s)].c = " " THEN TrimEnd(SubSeq(s, 1, Len(s) - 1)) ELSE s

\* string.trim()
Trim(s) == TrimEnd(TrimStart(s))

\* ------------------------------------------------------------------ text
\* A text (a request body, the agent's stdout) is a sequence of segments:
\* whitespace, prose (characters that are no part of any JSON and hold no
\* brace), a stray "{" or "}", or the serialisation of a JSON value.

SegWs == [k |-> "ws", v |-> Undefined]
SegProse == [k |-> "prose", v |-> Undefined]
SegLBrace == [k |-> "lbrace", v |-> Undefined]
SegRBrace == [k |-> "rbrace", v |-> Undefined]
SegJson(x) == [k |-> "json", v |-> x]

\* JSON.stringify(value)
Stringify(x) == <<SegJson(x)>>

RECURSIVE TextTrimStart(_)
TextTrimStart(s) ==
  IF s = << >> THEN s
  ELSE IF Head(s).k = "ws" THEN TextTrimStart(Tail(s)) ELSE s

RECURSIVE TextTrimEnd(_)
TextTrimEnd(s) ==
  IF s = << >> THEN s
  ELSE IF s[Len(s)].k = "ws" THEN TextTrimEnd(SubSeq(s, 1, Len(s) - 1)) ELSE s

\* text.trim()
TextTrim(s) == TextTrimEnd(TextTrimStart(s))

NotWs(seg) == seg.k # "ws"

Thrown == [ok |-> FALSE, v |-> Undefined]
Returned(x) == [ok |-> TRUE, v |-> x]

\* JSON.parse(text): the value, or a throw. Whitespace around tokens is
\* ignored; the text must hold exactly one value. A stray "{" followed by a
\* stray "}" is the empty object.
JsonParse(s) ==
  LET body == SelectSeq(s, NotWs)
  IN  IF Len(body) = 1 /\ body[1].k = "json" THEN Returned(body[1].v)
      ELSE IF Len(body) = 2 /\ body[1].k = "lbrace" /\ body[2].k = "rbrace"
           THEN Returned(JObj(<< >>))
      ELSE Thrown

\* The segments in which a brace character stands: a stray brace, or the
\* serialisation of an object (which starts with "{" and ends with "}").
HasBraceOpen(seg) == seg.k = "lbrace" \/ (seg.k = "json" /\ seg.v.t = "obj")
HasBraceClose(seg) == seg.k = "rbrace" \/ (seg.k = "json" /\ seg.v.t = "obj")

Min(S) == CHOOSE m \in S : \A o \in S : m <= o
Max(S) == CHOOSE m \in S : \A o \in S : m >= o

\* an extraction that, when the whole output is no JSON, takes the last
\* object written anywhere in it
extractJsonObjectLastObject(text) ==
  LET trimmed == TextTrim(text)
      whole == JsonParse(trimmed)
      objects == {i \in 1..Len(trimmed) : trimmed[i].k = "json" /\ trimmed[i].v.t = "obj"}
  IN  IF trimmed = << >> THEN Returned(JNull)
      ELSE IF whole.ok THEN whole
      ELSE IF objects # {} THEN Returned(trimmed[Max(objects)].v)
      ELSE Thrown

\* extractJsonObject(text): a value, or a throw
extractJsonObject(text) ==
  LET trimmed == TextTrim(text)
      whole == JsonParse(trimmed)
      opens == {i \in 1..Len(trimmed) : HasBraceOpen(trimmed[i])}
      closes == {i \in 1..Len(trimmed) : HasBraceClose(trimmed[i])}
  IN  IF trimmed = << >> THEN Returned(JNull)
      ELSE IF whole.ok THEN whole
      ELSE IF opens # {} /\ closes # {}
              /\ (Max(closes) > Min(opens)
                  \/ (Max(closes) = Min(opens) /\ trimmed[Min(opens)].k = "json"))
           THEN JsonParse(SubSeq(trimmed, Min(opens), Max(closes)))
      ELSE Thrown

\* ---------------------------------------------------------- validatePlan

NoError == ""

RECURSIVE FirstError(_)
\* the first error of a sequence of checks made in order ("" when none)
FirstError(errs) ==
  IF errs = << >> THEN NoError
  ELSE IF Head(errs) # NoError THEN Head(errs) ELSE FirstError(Tail(errs))

\* one binding of create_shape.shape.bindings
BindingErrorLoose(b) ==
  IF ~isObject(b) THEN "Invalid binding in create_shape.shape.bindings"
  ELSE NoError

BindingError(b) ==
  IF ~isObject(b) THEN "Invalid binding in create_shape.shape.bindings"
  ELSE IF ~(IsStrEq(Get(b, "terminal"), "start") \/ IsStrEq(Get(b, "terminal"), "end"))
       THEN "binding.terminal must be 'start' or 'end'"
  ELSE IF TypeOf(Get(b, "toId")) # "string" THEN "binding.toId must be a string"
  ELSE NoError

CreateShapeError(action) ==
  LET shape == Get(action, "shape")
      bindings == Get(shape, "bindings")
  IN  IF ~isObject(shape) \/ TypeOf(Get(shape, "kind")) # "string"
      THEN "create_shape.shape is invalid"
      ELSE IF IsStrEq(Get(shape, "kind"), "arrow")
              /\ HasKey(shape, "bindings") /\ ~IsNullish(bindings)
           THEN IF ~IsArray(bindings)
                THEN "create_shape.shape.bindings must be an array"
                ELSE FirstError([i \in 1..Len(bindings.a) |-> BindingError(bindings.a[i])])
      ELSE NoError

UpdateShapeError(action) ==
  IF TypeOf(Get(action, "id")) # "string" \/ ~isObject(Get(action, "patch"))
  THEN "update_shape is invalid"
  ELSE NoError

DeleteShapeError(action) ==
  IF TypeOf(Get(action, "id")) # "string" THEN "delete_shape is invalid" ELSE NoError

SelectError(action) ==
  LET ids == Get(action, "ids")
  IN  IF ~IsArray(ids) \/ ~(\A i \in 1..Len(ids.a) : TypeOf(ids.a[i]) = "string")
      THEN "select.ids is invalid"
      ELSE NoError

\* the default branch of the switch accepts the action instead of throwing
ActionErrorAcceptUnknown(action) ==
  IF ~isObject(action) \/ TypeOf(Get(action, "_type")) # "string"
  THEN "Invalid action in actions array"
  ELSE LET type == Get(action, "_type").s
       IN  CASE type = "create_shape" -> CreateShapeError(action)
             [] type = "update_shape" -> UpdateShapeError(action)
             [] type = "delete_shape" -> DeleteShapeError(action)
             [] type = "select" -> SelectError(action)
             [] OTHER -> NoError

\* the body of validatePlan's loop, for one action
ActionError(action) ==
  IF ~isObject(action) \/ TypeOf(Get(action, "_type")) # "string"
  THEN "Invalid action in actions array"
  ELSE LET type == Get(action, "_type").s
       IN  CASE type = "create_shape" -> CreateShapeError(action)
             [] type = "update_shape" -> UpdateShapeError(action)
             [] type = "delete_shape" -> DeleteShapeError(action)
             [] type = "select" -> SelectError(action)
             [] OTHER -> "Unknown action type"

\* validatePlan(plan): the message of the error it throws, "" when it
\* returns the plan
validatePlan(plan) ==
  IF ~isObject(plan) THEN "Plan is not an object"
  ELSE IF ~IsArray(Get(plan, "actions")) THEN "Plan.actions must be an array"
  ELSE IF TypeOf(Get(plan, "notes")) # "string" THEN "Plan.notes must be a string"
  ELSE LET actions == Get(plan, "actions").a
       IN  FirstError([i \in 1..Len(actions) |-> ActionError(actions[i])])

\* ------------------------------------------------------------ buildPrompt

\* array.slice(0, n)
SliceTo(s, n) == SubSeq(s, 1, IF Len(s) < n THEN Len(s) ELSE n)

\* buildPrompt(body): the parts of the prompt that come from the request.
\* canvasState is the text after "CANVAS_STATE (array of shapes):".
buildPrompt(body) ==
  LET shapes == IF IsNullish(body.shapes) THEN JArr(<< >>) ELSE body.shapes
      shapesText == IF Len(shapes.a) # 0
                    THEN Stringify(JArr(SliceTo(shapes.a, PROMPT_SHAPES_SLICE)))
                    ELSE Stringify(JArr(<< >>))
  IN  [userInstructions |-> body.message,
       canvasState |-> shapesText,
       extraInstructions |-> body.extraInstructions]

\* ------------------------------------------------------------------ state

Slots == 1..NumPrompts

VARIABLES
  \* the endpoint, one slot per request in flight
  srvPc,        \* "idle", "received", "agent", "done"
  reqText,      \* the request's body as sent
  prompt,       \* the prompt handed to the agent
  invocations,  \* how many times the agent process was started for the request
  agentOut,     \* what the agent did: [kind, code, stdout]
  responses,    \* the responses sent for the request, in order
  \* the prompt shape components
  draftMessage, isRunning, notes, error,
  cpc,          \* "idle", "waiting", "applying"
  actions,      \* the action list applyAgentActions is replaying
  idx,          \* the index of the next action to replay
  applyCalls,   \* how many times applyAgentActions was called in the run
  replayFrom,   \* the document as applyAgentActions found it on entry
  \* the document
  shapes,       \* the shapes of the page, in page order
  bindings,     \* the arrow bindings
  selection,    \* the ids of the selected shapes
  fresh,        \* how many ids createShapeId() has made up
  runs          \* the number of runs started

serverVars == <<srvPc, reqText, prompt, invocations, agentOut, responses>>
clientVars == <<draftMessage, isRunning, notes, error, cpc, actions, idx, applyCalls,
                replayFrom, runs>>
docVars == <<shapes, bindings, selection, fresh>>
vars == <<serverVars, clientVars, docVars>>

NoPrompt == [userInstructions |-> << >>, canvasState |-> << >>,
             extraInstructions |-> Undefined]
NoOutcome == [kind |-> "none", code |-> 0, stdout |-> << >>]

\* --------------------------------------------------------------- endpoint

\* NextResponse.json(body, { status })
Response(status, body) == [status |-> status, body |-> JObj(body)]

Respond(r, resp) ==
  /\ responses' = [responses EXCEPT ![r] = Append(@, resp)]
  /\ srvPc' = [srvPc EXCEPT ![r] = "done"]

\* the length check made before the blank check
InputStatusLengthFirst(parsed) ==
  IF ~parsed.ok THEN 400
  ELSE IF IsFalsy(parsed.v) \/ TypeOf(Get(parsed.v, "message")) # "string" THEN 400
  ELSE IF StrLen(Get(parsed.v, "message").m) > MAX_MESSAGE_LENGTH THEN 413
  ELSE IF StrLen(Trim(Get(parsed.v, "message").m)) = 0 THEN 400
  ELSE 0

\* the limit compared with >= instead of >
InputStatusOffByOne(parsed) ==
  IF ~parsed.ok THEN 400
  ELSE IF IsFalsy(parsed.v) \/ TypeOf(Get(parsed.v, "message")) # "string"
          \/ StrLen(Trim(Get(parsed.v, "message").m)) = 0
       THEN 400
  ELSE IF StrLen(Get(parsed.v, "message").m) >= MAX_MESSAGE_LENGTH THEN 413
  ELSE 0

\* the checks on the parsed body, in the order POST makes them: the status
\* of the early return, 0 when the request goes on to the agent
InputStatus(parsed) ==
  IF ~parsed.ok THEN 400
  ELSE IF IsFalsy(parsed.v) \/ TypeOf(Get(parsed.v, "message")) # "string"
          \/ StrLen(Trim(Get(parsed.v, "message").m)) = 0
       THEN 400
  ELSE IF StrLen(Get(parsed.v, "message").m) > MAX_MESSAGE_LENGTH THEN 413
  ELSE 0

\* the argument POST gives buildPrompt
PromptArgs(body) ==
  [message |-> Get(body, "message").m,
   shapes |-> IF IsArray(Get(body, "shapes"))
              THEN JArr(SliceTo(Get(body, "shapes").a, MAX_SHAPES_FOR_AGENT))
              ELSE JArr(<< >>),
   extraInstructions |-> Get(body, "extraInstructions")]

\* POST, from the arrival of the request to its early return or to the
\* start of the agent process
POST(r) ==
  /\ srvPc[r] = "received"
  /\ LET parsed == JsonParse(reqText[r])
         status == InputStatus(parsed)
     IN  IF status = 400 /\ ~parsed.ok
         THEN /\ Respond(r, Response(400, [error |-> JStr("Invalid JSON body")]))
              /\ UNCHANGED <<prompt, invocations>>
         ELSE IF status = 400
         THEN /\ Respond(r, Response(400,
                     [error |-> JStr("Missing required field: message (string)")]))
              /\ UNCHANGED <<prompt, invocations>>
         ELSE IF status = 413
         THEN /\ Respond(r, Response(413, [error |-> JStr("message too long")]))
              /\ UNCHANGED <<prompt, invocations>>
         ELSE /\ prompt' = [prompt EXCEPT ![r] = buildPrompt(PromptArgs(parsed.v))]
              /\ invocations' = [invocations EXCEPT ![r] = @ + 1]
              /\ srvPc' = [srvPc EXCEPT ![r] = "agent"]
              /\ UNCHANGED responses
  /\ UNCHANGED <<reqText, agentOut, clientVars, docVars>>

\* the response POST builds from an agent process that ended
AgentResponseIgnoreExit(code, stdout) ==
  LET extracted == extractJsonObject(stdout)
      detail == IF extracted.ok THEN validatePlan(extracted.v)
                ELSE "Could not parse JSON from output"
  IN  IF detail # NoError
      THEN Response(502, [error |-> JStr("cursor-agent output was not valid plan JSON"),
                          detail |-> JStr(detail),
                          agentStdout |-> JRawText(stdout)])
      ELSE Response(200, [actions |-> Get(extracted.v, "actions"),
                          notes |-> Get(extracted.v, "notes")])

AgentResponse(code, stdout) ==
  LET extracted == extractJsonObject(stdout)
      detail == IF extracted.ok THEN validatePlan(extracted.v)
                ELSE "Could not parse JSON from output"
  IN  IF code # 0
      THEN Response(502, [error |-> JStr("cursor-agent failed"),
                          exitCode |-> JNum(QInt(code)),
                          stderr |-> JRawText(<< >>)])
      ELSE IF detail # NoError
      THEN Response(502, [error |-> JStr("cursor-agent output was not valid plan JSON"),
                          detail |-> JStr(detail),
                          agentStdout |-> JRawText(stdout)])
      ELSE Response(200, [actions |-> Get(extracted.v, "actions"),
                          notes |-> Get(extracted.v, "notes")])

\* a failed agent run is started again (up to three runs in all)
AgentExitRetry(r, code, stdout) ==
  /\ srvPc[r] = "agent"
  /\ agentOut' = [agentOut EXCEPT ![r] = [kind |-> "exit", code |-> code, stdout |-> stdout]]
  /\ IF AgentResponse(code, stdout).status # 200 /\ invocations[r] < 3
     THEN /\ invocations' = [invocations EXCEPT ![r] = @ + 1]
          /\ UNCHANGED <<srvPc, responses>>
     ELSE /\ Respond(r, AgentResponse(code, stdout))
          /\ UNCHANGED invocations
  /\ UNCHANGED <<reqText, prompt, clientVars, docVars>>

\* the agent process ends with an exit code and its output: POST resumes
\* after the await and returns
AgentExit(r, code, stdout) ==
  /\ srvPc[r] = "agent"
  /\ agentOut' = [agentOut EXCEPT ![r] = [kind |-> "exit", code |-> code, stdout |-> stdout]]
  /\ Respond(r, AgentResponse(code, stdout))
  /\ UNCHANGED <<reqText, prompt, invocations, clientVars, docVars>>

\* starting or awaiting the agent process throws: the outer catch of POST
AgentThrow(r) ==
  /\ srvPc[r] = "agent"
  /\ agentOut' = [agentOut EXCEPT ![r] = [kind |-> "throw", code |-> 0, stdout |-> << >>]]
  /\ Respond(r, Response(500, [error |-> JStr("Failed to run cursor-agent"),
                               detail |-> JStr("thrown")]))
  /\ UNCHANGED <<reqText, prompt, invocations, clientVars, docVars>>

\* a request reaches the endpoint (a slot that holds no unfinished request)
Arrive(r, text) ==
  /\ srvPc[r] \in {"idle", "done"}
  /\ srvPc' = [srvPc EXCEPT ![r] = "received"]
  /\ reqText' = [reqText EXCEPT ![r] = text]
  /\ prompt' = [prompt EXCEPT ![r] = NoPrompt]
  /\ invocations' = [invocations EXCEPT ![r] = 0]
  /\ agentOut' = [agentOut EXCEPT ![r] = NoOutcome]
  /\ responses' = [responses EXCEPT ![r] = << >>]

\* ------------------------------------------------------- request inputs

RECURSIVE Fields(_)
\* the object with the given <<key, value>> pairs, a pair whose value is
\* undefined left out
Fields(pairs) ==
  IF pairs = << >> THEN << >>
  ELSE IF Head(pairs)[2].t = "undefined" THEN Fields(Tail(pairs))
  ELSE (Head(pairs)[1] :> Head(pairs)[2]) @@ Fields(Tail(pairs))

Obj(pairs) == JObj(Fields(pairs))

\* a shapes array of n shape summaries, numbered in order
ShapeSummaries(n) ==
  JArr([i \in 1..n |-> Obj(<< <<"id", JStr(ToString(i))>>, <<"type", JStr("geo")>> >>)])

RequestBody(message, shapeList, extra) ==
  Stringify(Obj(<< <<"message", message>>, <<"shapes", shapeList>>,
                   <<"extraInstructions", extra>> >>))

\* messages around the length limit, blank and not
MessagePool ==
  << JText(<< >>),
     JText(Spaces(1)),
     JText(Spaces(MAX_MESSAGE_LENGTH)),
     JText(Spaces(MAX_MESSAGE_LENGTH + 1)),
     JText(Chars(1)),
     JText(Chars(MAX_MESSAGE_LENGTH)),
     JText(Chars(MAX_MESSAGE_LENGTH + 1)),
     JText(Spaces(1) \o Chars(MAX_MESSAGE_LENGTH - 1)),
     JText(Chars(MAX_MESSAGE_LENGTH) \o Spaces(1)),
     JText(Spaces(1) \o Chars(MAX_MESSAGE_LENGTH - 2) \o Spaces(1)),
     JText(Chars(1) \o Spaces(MAX_MESSAGE_LENGTH - 2) \o Chars(1)),
     Undefined, JNull, JNum(QInt(7)), JBool(TRUE), JArr(<< >>), Obj(<< >>) >>

\* shapes fields around the two caps, and ones that are no array
ShapesPool ==
  << Undefined, JNull, Obj(<< >>), JStr("all"),
     ShapeSummaries(0), ShapeSummaries(1),
     ShapeSummaries(PROMPT_SHAPES_SLICE - 1), ShapeSummaries(PROMPT_SHAPES_SLICE),
     ShapeSummaries(PROMPT_SHAPES_SLICE + 1),
     ShapeSummaries(MAX_SHAPES_FOR_AGENT - 1), ShapeSummaries(MAX_SHAPES_FOR_AGENT),
     ShapeSummaries(MAX_SHAPES_FOR_AGENT + 1) >>

\* the bodies a client may post to the endpoint
RequestPool ==
  << << >>, <<SegProse>>, <<SegLBrace, SegProse>>,
     Stringify(JNull), Stringify(JNum(QInt(0))), Stringify(JBool(FALSE)),
     Stringify(JStr("")), Stringify(JStr("run")), Stringify(JArr(<< >>)) >>
  \o [i \in 1..Len(MessagePool) |-> RequestBody(MessagePool[i], Undefined, Undefined)]
  \o [i \in 1..Len(ShapesPool) |-> RequestBody(JText(Chars(1)), ShapesPool[i], Undefined)]
  \o << RequestBody(JText(Chars(MAX_MESSAGE_LENGTH)),
                    ShapeSummaries(MAX_SHAPES_FOR_AGENT + 1), JStr("be brief")),
        RequestBody(JText(Chars(MAX_MESSAGE_LENGTH + 1)), ShapeSummaries(1), Undefined),
        RequestBody(JText(Spaces(2)), ShapeSummaries(1), JStr("be brief")) >>

\* ----------------------------------------------------- the agent's answers

Num(i) == JNum(QInt(i))
Point(x, y) == Obj(<< <<"x", x>>, <<"y", y>> >>)

CreateShape(shape) == Obj(<< <<"_type", JStr("create_shape")>>, <<"shape", shape>> >>)

\* id, w, h: Undefined to leave the field out
GeoShape(id, x, y, w, h) ==
  Obj(<< <<"kind", JStr("geo")>>, <<"id", id>>, <<"geo", JStr("rectangle")>>,
         <<"x", x>>, <<"y", y>>, <<"w", w>>, <<"h", h>> >>)

TextShape(id, x, y, text) ==
  Obj(<< <<"kind", JStr("text")>>, <<"id", id>>, <<"x", x>>, <<"y", y>>,
         <<"text", text>> >>)

ArrowShape(id, start, end, bindingList) ==
  Obj(<< <<"kind", JStr("arrow")>>, <<"id", id>>, <<"start", start>>, <<"end", end>>,
         <<"bindings", bindingList>> >>)

Binding(terminal, toId, anchor) ==
  Obj(<< <<"terminal", terminal>>, <<"toId", toId>>, <<"normalizedAnchor", anchor>> >>)

UpdateShape(id, patch) ==
  Obj(<< <<"_type", JStr("update_shape")>>, <<"id", id>>, <<"patch", patch>> >>)

DeleteShape(id) == Obj(<< <<"_type", JStr("delete_shape")>>, <<"id", id>> >>)

Select(ids) == Obj(<< <<"_type", JStr("select")>>, <<"ids", ids>> >>)

\* Actions validatePlan accepts and whose every value the applier hands to
\* the canvas library is of the type the library asks for.
\* "a" is an id without the "shape:" prefix, "shape:b" one with it,
\* "shape:e" a geo shape of the document, "shape:p1" a prompt shape and
\* "shape:zz" no shape.
ReplayableActions ==
  << CreateShape(GeoShape(JStr("a"), Num(0), Num(0), Undefined, Undefined)),
     CreateShape(GeoShape(JStr("shape:b"), Num(10), Num(20), Num(100), Num(50))),
     CreateShape(GeoShape(Undefined, Num(5), Num(5), Num(0), Num(40))),
     CreateShape(TextShape(Undefined, Num(1), Num(2), JStr("hello"))),
     CreateShape(ArrowShape(Undefined, Point(Num(0), Num(0)), Point(Num(60), Num(45)),
                            Undefined)),
     CreateShape(ArrowShape(JStr("c"), Point(Num(55), Num(70)), Point(Num(30), Num(30)),
        JArr(<< Binding(JStr("start"), JStr("a"), Undefined),
                Binding(JStr("end"), JStr("shape:b"), Point(JNum(Q(1, 4)), Num(1))) >>))),
     CreateShape(ArrowShape(Undefined, Point(Num(-5), Num(30)), Point(Num(500), Num(90)),
        JArr(<< Binding(JStr("start"), JStr("shape:e"), Undefined),
                Binding(JStr("end"), JStr("shape:e"), Undefined) >>))),
     CreateShape(ArrowShape(Undefined, Point(Num(0), Num(0)), Point(Num(10), Num(10)),
        JArr(<< Binding(JStr("end"), JStr("a"), Point(Num(2), JNum(Q(1, 2)))) >>))),
     CreateShape(ArrowShape(Undefined, Point(Num(0), Num(0)), Point(Num(10), Num(10)),
        JArr(<< Binding(JStr("start"), JStr("shape:p1"), Undefined),
                Binding(JStr("end"), JStr("shape:zz"), Undefined),
                Binding(JStr("end"), JStr("e"), Point(Num(0), Num(-1))) >>))),
     CreateShape(Obj(<< <<"kind", JStr("circle")>>, <<"x", Num(1)>>, <<"y", Num(1)>> >>)),
     UpdateShape(JStr("a"), Obj(<< <<"x", Num(7)>> >>)),
     UpdateShape(JStr("shape:a"), Obj(<< <<"x", Num(7)>>, <<"y", Num(8)>> >>)),
     UpdateShape(JStr("shape:b"),
                 Obj(<< <<"props", Obj(<< <<"color", JStr("red")>> >>)>> >>)),
     UpdateShape(JStr("shape:e"), Obj(<< <<"x", JStr("7")>>, <<"y", Num(9)>> >>)),
     UpdateShape(JStr("shape:zz"), Obj(<< <<"x", Num(7)>> >>)),
     DeleteShape(JStr("a")),
     DeleteShape(JStr("shape:b")),
     DeleteShape(JStr("shape:e")),
     DeleteShape(JStr("shape:zz")),
     Select(JArr(<< JStr("a") >>)),
     Select(JArr(<< JStr("shape:a"), JStr("shape:e"), JStr("shape:zz") >>)),
     Select(JArr(<< JStr("shape:b") >>)),
     Select(JArr(<< >>)) >>

\* Actions validatePlan accepts although a field the canvas library reads
\* is missing or of the wrong type.
LooseActions ==
  << CreateShape(Obj(<< <<"kind", JStr("geo")>>, <<"geo", JStr("rectangle")>> >>)),
     CreateShape(GeoShape(Undefined, JStr("1"), Num(0), Undefined, Undefined)),
     CreateShape(Obj(<< <<"kind", JStr("geo")>>, <<"geo", Num(4)>>,
                        <<"x", Num(0)>>, <<"y", Num(0)>> >>)),
     CreateShape(TextShape(Undefined, Num(1), Num(2), Undefined)),
     CreateShape(ArrowShape(Undefined, Undefined, Num(3), Undefined)) >>

\* Actions validatePlan accepts and the applier itself throws on.
ThrowingActions ==
  << CreateShape(ArrowShape(Undefined, Undefined, Point(Num(3), Num(3)), Undefined)),
     CreateShape(GeoShape(Num(5), Num(0), Num(0), Undefined, Undefined)),
     CreateShape(ArrowShape(JStr("c"), Point(Num(0), Num(0)), JNull, Undefined)) >>

\* Actions validatePlan refuses.
InvalidActions ==
  << Obj(<< <<"_type", JStr("move_shape")>>, <<"id", JStr("shape:e")>> >>),
     Obj(<< <<"_type", JStr("")>> >>),
     Obj(<< <<"_type", Num(1)>> >>),
     Obj(<< <<"id", JStr("shape:e")>> >>),
     JStr("delete_shape"),
     JNull,
     JArr(<< >>),
     CreateShape(Undefined),
     CreateShape(JStr("geo")),
     CreateShape(Obj(<< <<"kind", Num(1)>> >>)),
     CreateShape(Obj(<< <<"x", Num(1)>>, <<"y", Num(1)>> >>)),
     CreateShape(ArrowShape(Undefined, Point(Num(0), Num(0)), Point(Num(1), Num(1)),
                            Obj(<< >>))),
     CreateShape(ArrowShape(Undefined, Point(Num(0), Num(0)), Point(Num(1), Num(1)),
                            JArr(<< JStr("shape:e") >>))),
     CreateShape(ArrowShape(Undefined, Point(Num(0), Num(0)), Point(Num(1), Num(1)),
                            JArr(<< Binding(JStr("middle"), JStr("shape:e"), Undefined) >>))),
     CreateShape(ArrowShape(Undefined, Point(Num(0), Num(0)), Point(Num(1), Num(1)),
                            JArr(<< Binding(JStr("start"), Num(3), Undefined) >>))),
     CreateShape(ArrowShape(Undefined, Point(Num(0), Num(0)), Point(Num(1), Num(1)),
                            JArr(<< Binding(Undefined, JStr("shape:e"), Undefined) >>))),
     UpdateShape(Num(1), Obj(<< >>)),
     UpdateShape(JStr("shape:e"), Undefined),
     UpdateShape(JStr("shape:e"), JArr(<< >>)),
     DeleteShape(Undefined),
     DeleteShape(Num(2)),
     Select(Undefined),
     Select(JStr("shape:e")),
     Select(JArr(<< JStr("shape:e"), Num(1) >>)) >>

Plan(actionList, planNotes) == Obj(<< <<"actions", actionList>>, <<"notes", planNotes>> >>)

\* what stands around a plan in the agent's output
Wrap(kind, plan) ==
  CASE kind = "bare" -> <<SegJson(plan)>>
    [] kind = "spaced" -> <<SegWs, SegJson(plan), SegWs>>
    [] kind = "prose" -> <<SegProse, SegWs, SegJson(plan), SegWs, SegProse>>
    [] kind = "braces" -> <<SegLBrace, SegProse, SegRBrace, SegJson(plan)>>
    [] kind = "twice" -> <<SegJson(plan), SegWs, SegJson(plan)>>
    [] kind = "closed" -> <<SegProse, SegRBrace, SegJson(plan), SegLBrace>>

WrapKinds == {"bare", "spaced", "prose", "braces", "twice", "closed"}

\* outputs that hold no plan at all
NoPlanOutputs ==
  { << >>, <<SegWs>>, <<SegProse>>, <<SegLBrace, SegRBrace>>, <<SegLBrace, SegProse>>,
    <<SegRBrace, SegProse, SegLBrace>>, <<SegProse, SegLBrace, SegWs, SegRBrace>>,
    Stringify(JNull), Stringify(Num(3)), Stringify(JArr(<< >>)), Stringify(JStr("done")),
    <<SegProse, SegJson(Num(3))>> }

\* plans whose actions or notes field is missing or of the wrong type
BadPlans ==
  { Obj(<< >>),
    Plan(Undefined, JStr("n")),
    Plan(Obj(<< >>), JStr("n")),
    Plan(JArr(<< >>), Undefined),
    Plan(JArr(<< >>), Num(1)),
    Plan(JStr("none"), JStr("n")) }

\* the actions the endpoint is checked on
PostActions ==
  << ReplayableActions[1], ReplayableActions[4], ReplayableActions[6],
     ReplayableActions[8], ReplayableActions[10], ReplayableActions[11],
     ReplayableActions[14], ReplayableActions[16], ReplayableActions[21] >>
  \o LooseActions \o InvalidActions

\* what the agent process may end with: [code, stdout]
Outcome(code, stdout) == [code |-> code, stdout |-> stdout]

BasicOutcomes ==
  {Outcome(0, Wrap(k, Plan(JArr(<< ReplayableActions[1] >>), JStr("ok")))) : k \in WrapKinds}
  \cup {Outcome(0, Wrap(k, Plan(JArr(<< InvalidActions[1] >>), JStr("ok")))) : k \in WrapKinds}
  \cup {Outcome(0, out) : out \in NoPlanOutputs}
  \cup {Outcome(0, Stringify(plan)) : plan \in BadPlans}
  \cup {Outcome(1, out) : out \in {<< >>, <<SegProse>>,
          Stringify(Plan(JArr(<< ReplayableActions[1] >>), JStr("ok")))}}

\* --------------------------------------------------------------- document

\* A shape is [id, type, x, y, props]: id and type are short strings, x, y
\* and props are JavaScript values, kept as the applier handed them over.
\* A binding is [fromId, toId, terminal, normalizedAnchor, isExact, isPrecise].
\* A document is [shapes, bindings, selection, fresh].

Shape(id, type, x, y, props) == [id |-> id, type |-> type, x |-> x, y |-> y, props |-> props]

PromptId(p) == "shape:p" \o ToString(p)

\* a prompt shape as the tool drops it, with getDefaultProps
PromptShape(p) ==
  Shape(PromptId(p), "agent-prompt", Num(0), Num(300 * p),
        Obj(<< <<"w", Num(420)>>, <<"h", Num(260)>>, <<"message", JText(<< >>)>> >>))

\* the shapes on the page before any run, in page order
InitShapes ==
  [p \in Slots |-> PromptShape(p)]
  \o << Shape("shape:e", "geo", Num(100), Num(0),
              Obj(<< <<"geo", JStr("rectangle")>>, <<"w", Num(200)>>, <<"h", Num(120)>>,
                     <<"color", JStr("black")>> >>)) >>

\* ---- the canvas library, as far as the applier uses it

ShapeIndex(d, id) == {i \in 1..Len(d.shapes) : d.shapes[i].id = id}

HasShape(d, id) == ShapeIndex(d, id) # {}

\* editor.getShape(id), for an id HasShape holds of
GetShape(d, id) == d.shapes[CHOOSE i \in ShapeIndex(d, id) : TRUE]

\* editor.createShape(shape): the record is put into the store, on top of
\* the page (a record of the same id is replaced where it stands)
EditorCreateShape(d, shape) ==
  IF HasShape(d, shape.id)
  THEN [d EXCEPT !.shapes =
          [i \in 1..Len(d.shapes) |->
             IF d.shapes[i].id = shape.id THEN shape ELSE d.shapes[i]]]
  ELSE [d EXCEPT !.shapes = Append(d.shapes, shape)]

\* { ...props, ...patch }
MergeProps(props, patch) ==
  JObj([k \in DOMAIN props.o \cup DOMAIN patch.o |->
          IF k \in DOMAIN patch.o THEN patch.o[k] ELSE props.o[k]])

\* editor.updateShape({ id, type, x?, y?, props? }): x, y replaced and props
\* merged where given (Undefined: not given)
EditorUpdateShape(d, id, x, y, props) ==
  [d EXCEPT !.shapes =
     [i \in 1..Len(d.shapes) |->
        LET old == d.shapes[i]
        IN  IF old.id # id THEN old
            ELSE Shape(old.id, old.type,
                       IF x.t = "undefined" THEN old.x ELSE x,
                       IF y.t = "undefined" THEN old.y ELSE y,
                       IF props.t = "undefined" THEN old.props
                       ELSE MergeProps(old.props, props))]]

\* editor.deleteShapes([id]): the shape goes, and with it the bindings from
\* or to it and its place in the selection
EditorDeleteShapes(d, id) ==
  [d EXCEPT !.shapes = SelectSeq(d.shapes, LAMBDA s : s.id # id),
            !.bindings = SelectSeq(d.bindings, LAMBDA b : b.fromId # id /\ b.toId # id),
            !.selection = d.selection \ {id}]

\* editor.createBinding(binding)
EditorCreateBinding(d, binding) == [d EXCEPT !.bindings = Append(d.bindings, binding)]

\* editor.setSelectedShapes(ids), editor.selectNone()
EditorSetSelectedShapes(d, ids) == [d EXCEPT !.selection = ids]

NoBounds == [ok |-> FALSE, x |-> QZero, y |-> QZero, w |-> QZero, h |-> QZero]

\* editor.getShapePageBounds(id): the box of a shape that has one in its
\* props (geo and prompt shapes); text and arrows are measured by the
\* library and no plan of the pools binds an arrow to one
EditorGetShapePageBounds(d, id) ==
  IF ~HasShape(d, id) THEN NoBounds
  ELSE LET s == GetShape(d, id)
       IN  IF /\ s.x.t = "num" /\ s.y.t = "num"
              /\ Get(s.props, "w").t = "num" /\ Get(s.props, "h").t = "num"
           THEN [ok |-> TRUE, x |-> s.x.q, y |-> s.y.q,
                 w |-> Get(s.props, "w").q, h |-> Get(s.props, "h").q]
           ELSE NoBounds

\* toRichText(text) of the library: the text wrapped into a document
toRichText(text) == Obj(<< <<"type", JStr("doc")>>, <<"content", JArr(<<text>>)>> >>)

\* createShapeId(id) of the library
createShapeId(id) == "shape:" \o id

\* createShapeId() of the library: an id no shape has, the n-th made up
FreshShapeId(n) == "shape:f" \o ToString(n)

\* string.startsWith(prefix)
StartsWith(s, prefix) == Len(s) >= Len(prefix) /\ SubSeq(s, 1, Len(prefix)) = prefix

\* ---- agentActions.ts

\* a conversion that gives a bare name the prefix of a shape id
toShapeIdPrefixed(id) == IF StartsWith(id, "shape:") THEN id ELSE createShapeId(id)

\* id as TLShapeId
toShapeId(id) == id

ensureShapeId(id) == IF StartsWith(id, "shape:") THEN id ELSE createShapeId(id)

\* a clamp with the upper limit only
clampAbove(n) == QMin(QOne, n)

\* Math.min(1, Math.max(0, n))
clamp(n) == QMin(QOne, QMax(QZero, n))

getNormalizedAnchorFromPoint(d, targetId, pagePoint) ==
  LET bounds == EditorGetShapePageBounds(d, targetId)
  IN  IF ~bounds.ok \/ QIsZero(bounds.w) \/ QIsZero(bounds.h)
      THEN Point(JNum(QHalf), JNum(QHalf))
      ELSE Point(JNum(clamp(QDiv(QSub(Get(pagePoint, "x").q, bounds.x), bounds.w))),
                 JNum(clamp(QDiv(QSub(Get(pagePoint, "y").q, bounds.y), bounds.h))))

\* value ?? fallback
Coalesce(value, fallback) == IF IsNullish(value) THEN fallback ELSE value

\* the document with the new shape's id: action.shape.id ?
\* ensureShapeId(action.shape.id) : createShapeId()
WithNewId(d, given) ==
  IF IsFalsy(given)
  THEN [doc |-> [d EXCEPT !.fresh = d.fresh + 1], id |-> FreshShapeId(d.fresh + 1)]
  ELSE [doc |-> d, id |-> ensureShapeId(given.s)]

RECURSIVE ApplyBindingsUntilSkip(_, _, _, _, _)
\* a loop over the bindings that ends at the first binding it cannot make
ApplyBindingsUntilSkip(d, id, start, end, bindingList) ==
  IF bindingList = << >> THEN d
  ELSE LET binding == Head(bindingList)
           targetId == ensureShapeId(Get(binding, "toId").s)
       IN  IF ~HasShape(d, targetId) \/ GetShape(d, targetId).type = "agent-prompt"
           THEN d
           ELSE ApplyBindingsUntilSkip(
                  EditorCreateBinding(d,
                    [fromId |-> id, toId |-> targetId,
                     terminal |-> Get(binding, "terminal").s,
                     normalizedAnchor |->
                       IF IsNullish(Get(binding, "normalizedAnchor"))
                       THEN getNormalizedAnchorFromPoint(d, targetId,
                              IF IsStrEq(Get(binding, "terminal"), "start") THEN start ELSE end)
                       ELSE Get(binding, "normalizedAnchor"),
                     isExact |-> Coalesce(Get(binding, "isExact"), JBool(FALSE)),
                     isPrecise |-> Coalesce(Get(binding, "isPrecise"), JBool(TRUE))]),
                  id, start, end, Tail(bindingList))

RECURSIVE ApplyBindings(_, _, _, _, _)
\* the loop over the bindings of an arrow that was created with the id
ApplyBindings(d, id, start, end, bindingList) ==
  IF bindingList = << >> THEN d
  ELSE LET binding == Head(bindingList)
           targetId == ensureShapeId(Get(binding, "toId").s)
           skipped == \/ ~HasShape(d, targetId)
                      \/ GetShape(d, targetId).type = "agent-prompt"
           normalizedAnchor ==
             IF IsNullish(Get(binding, "normalizedAnchor"))
             THEN getNormalizedAnchorFromPoint(d, targetId,
                    IF IsStrEq(Get(binding, "terminal"), "start") THEN start ELSE end)
             ELSE Get(binding, "normalizedAnchor")
           next == IF skipped THEN d
                   ELSE EditorCreateBinding(d,
                          [fromId |-> id, toId |-> targetId,
                           terminal |-> Get(binding, "terminal").s,
                           normalizedAnchor |-> normalizedAnchor,
                           isExact |-> Coalesce(Get(binding, "isExact"), JBool(FALSE)),
                           isPrecise |-> Coalesce(Get(binding, "isPrecise"), JBool(TRUE))])
       IN  ApplyBindings(next, id, start, end, Tail(bindingList))

CreateGeo(d, shape) ==
  LET new == WithNewId(d, Get(shape, "id"))
  IN  EditorCreateShape(new.doc,
        Shape(new.id, "geo", Get(shape, "x"), Get(shape, "y"),
              Obj(<< <<"geo", Get(shape, "geo")>>,
                     <<"w", Coalesce(Get(shape, "w"), Num(220))>>,
                     <<"h", Coalesce(Get(shape, "h"), Num(140))>>,
                     <<"color", Coalesce(Get(shape, "color"), JStr("black"))>>,
                     <<"richText", toRichText(Coalesce(Get(shape, "label"), JStr("")))>>,
                     <<"labelColor", Coalesce(Get(shape, "color"), JStr("black"))>> >>)))

CreateText(d, shape) ==
  LET new == WithNewId(d, Get(shape, "id"))
  IN  EditorCreateShape(new.doc,
        Shape(new.id, "text", Get(shape, "x"), Get(shape, "y"),
              Obj(<< <<"w", Coalesce(Get(shape, "w"), Num(320))>>,
                     <<"autoSize", JBool(TRUE)>>,
                     <<"color", Coalesce(Get(shape, "color"), JStr("black"))>>,
                     <<"richText", toRichText(Get(shape, "text"))>> >>)))

CreateArrow(d, shape) ==
  LET new == WithNewId(d, Get(shape, "id"))
      start == Get(shape, "start")
      end == Get(shape, "end")
      made == EditorCreateShape(new.doc,
                Shape(new.id, "arrow", Get(start, "x"), Get(start, "y"),
                      Obj(<< <<"start", Point(Num(0), Num(0))>>,
                             <<"end", Point(JNum(QSub(Get(end, "x").q, Get(start, "x").q)),
                                            JNum(QSub(Get(end, "y").q, Get(start, "y").q)))>>,
                             <<"color", Coalesce(Get(shape, "color"), JStr("black"))>>,
                             <<"richText",
                               toRichText(Coalesce(Get(shape, "label"), JStr("")))>> >>)))
  IN  ApplyBindings(made, new.id, start, end, Coalesce(Get(shape, "bindings"), JArr(<< >>)).a)

\* the ids a select action resolves: action.ids.map(toShapeId).filter(getShape)
SelectedIds(d, ids) ==
  {toShapeId(ids[i].s) : i \in {j \in 1..Len(ids) : HasShape(d, toShapeId(ids[j].s))}}

\* one turn of the loop of applyAgentActions: the document after the action
ApplyAction(d, action) ==
  LET type == Get(action, "_type")
      shape == Get(action, "shape")
      patch == Get(action, "patch")
  IN  IF IsStrEq(type, "create_shape")
      THEN IF IsStrEq(Get(shape, "kind"), "geo") THEN CreateGeo(d, shape)
           ELSE IF IsStrEq(Get(shape, "kind"), "text") THEN CreateText(d, shape)
           ELSE IF IsStrEq(Get(shape, "kind"), "arrow") THEN CreateArrow(d, shape)
           ELSE d
      ELSE IF IsStrEq(type, "update_shape")
      THEN IF ~HasShape(d, toShapeId(Get(action, "id").s)) THEN d
           ELSE EditorUpdateShape(d, toShapeId(Get(action, "id").s),
                  IF TypeOf(Get(patch, "x")) = "number" THEN Get(patch, "x") ELSE Undefined,
                  IF TypeOf(Get(patch, "y")) = "number" THEN Get(patch, "y") ELSE Undefined,
                  IF ~IsFalsy(Get(patch, "props")) /\ TypeOf(Get(patch, "props")) = "object"
                  THEN Get(patch, "props") ELSE Undefined)
      ELSE IF IsStrEq(type, "delete_shape")
      THEN IF ~HasShape(d, toShapeId(Get(action, "id").s)) THEN d
           ELSE EditorDeleteShapes(d, toShapeId(Get(action, "id").s))
      ELSE IF IsStrEq(type, "select")
      THEN EditorSetSelectedShapes(d, SelectedIds(d, Get(action, "ids").a))
      ELSE d

\* the turn of the loop for the action throws in applyAgentActions itself:
\* ensureShapeId calls id.startsWith on an id that is no string, and
\* start.x, end.x are read of an arrow's start or end that is null or
\* undefined
Throws(action) ==
  LET shape == Get(action, "shape")
      kind == Get(shape, "kind")
  IN  /\ IsStrEq(Get(action, "_type"), "create_shape")
      /\ \/ /\ \E k \in {"geo", "text", "arrow"} : IsStrEq(kind, k)
            /\ ~IsFalsy(Get(shape, "id"))
            /\ TypeOf(Get(shape, "id")) # "string"
         \/ /\ IsStrEq(kind, "arrow")
            /\ IsNullish(Get(shape, "start")) \/ IsNullish(Get(shape, "end"))

\* getCanvasStateForAgent(editor, { excludeTypes: ["agent-prompt"] })
getCanvasStateForAgent(d) ==
  LET kept == SelectSeq(d.shapes, LAMBDA s : s.type # "agent-prompt")
      Summary(s) ==
        Obj(<< <<"id", JStr(s.id)>>, <<"type", JStr(s.type)>>, <<"x", s.x>>, <<"y", s.y>>,
               <<"props", IF isObject(s.props) THEN s.props ELSE Obj(<< >>)>>,
               <<"bindings",
                 IF s.type # "arrow" THEN Undefined
                 ELSE LET from == SelectSeq(d.bindings, LAMBDA b : b.fromId = s.id)
                      IN  JArr([i \in 1..Len(from) |->
                                  Obj(<< <<"terminal", JStr(from[i].terminal)>>,
                                         <<"toId", JStr(from[i].toId)>>,
                                         <<"normalizedAnchor", from[i].normalizedAnchor>>,
                                         <<"isExact", from[i].isExact>>,
                                         <<"isPrecise", from[i].isPrecise>> >>)])>> >>)
      first == SliceTo(kept, MAX_SHAPES_FOR_AGENT)
  IN  [i \in 1..Len(first) |-> Summary(first[i])]

\* no document: applyAgentActions is not running
NoDoc == [shapes |-> << >>, bindings |-> << >>, selection |-> {}, fresh |-> 0]

Init ==
  /\ srvPc = [r \in Slots |-> "idle"]
  /\ reqText = [r \in Slots |-> << >>]
  /\ prompt = [r \in Slots |-> NoPrompt]
  /\ invocations = [r \in Slots |-> 0]
  /\ agentOut = [r \in Slots |-> NoOutcome]
  /\ responses = [r \in Slots |-> << >>]
  /\ draftMessage = [p \in Slots |-> << >>]
  /\ isRunning = [p \in Slots |-> FALSE]
  /\ notes = [p \in Slots |-> JStr("")]
  /\ error = [p \in Slots |-> << >>]
  /\ cpc = [p \in Slots |-> "idle"]
  /\ actions = [p \in Slots |-> << >>]
  /\ idx = [p \in Slots |-> 1]
  /\ applyCalls = [p \in Slots |-> 0]
  /\ replayFrom = [p \in Slots |-> NoDoc]
  /\ shapes = InitShapes
  /\ bindings = << >>
  /\ selection = {}
  /\ fresh = 0
  /\ runs = 0

\* ------------------------------------------------- the endpoint on its own

\* a client other than the canvas page posts a body
ExternalPost(r, text) ==
  /\ Arrive(r, text)
  /\ UNCHANGED <<clientVars, docVars>>

\* the request every answer of the agent is tried on
PlainRequest == RequestBody(JText(Chars(1)), Undefined, Undefined)

NextPost ==
  \/ /\ srvPc[1] = "idle"
     /\ \E i \in 1..Len(RequestPool) : ExternalPost(1, RequestPool[i])
  \/ POST(1)
  \/ /\ srvPc[1] = "agent"
     /\ \E o \in BasicOutcomes : AgentExit(1, o.code, o.stdout)
  \/ /\ srvPc[1] = "agent"
     /\ reqText[1] = PlainRequest
     /\ \E n \in 0..MaxActions : \E f \in [1..n -> 1..Len(PostActions)] :
        AgentExit(1, 0, Stringify(Plan(JArr([i \in 1..n |-> PostActions[f[i]]]), JStr("ok"))))
  \/ AgentThrow(1)

SpecPost == Init /\ [][NextPost]_vars

\* ------------------------------------------------- the prompt shape's page

\* Most runs the user starts in all.
MaxRuns == 2

Doc == [shapes |-> shapes, bindings |-> bindings, selection |-> selection, fresh |-> fresh]

SetDoc(d) ==
  /\ shapes' = d.shapes
  /\ bindings' = d.bindings
  /\ selection' = d.selection
  /\ fresh' = d.fresh

\* the page's one thread is inside applyAgentActions
\* a page on which a replay that has begun holds nothing up
NeverBusy == FALSE

Busy == \E p \in Slots : cpc[p] = "applying"

\* shape.props.message of the prompt shape
MessageProp(d, p) == Get(GetShape(d, PromptId(p)).props, "message").m

\* a canRun that looks at the draft only
canRunWhileRunning(p) == StrLen(Trim(draftMessage[p])) > 0

canRun(p) == StrLen(Trim(draftMessage[p])) > 0 /\ ~isRunning[p]

\* updateProps({ message })
updateProps(d, p, message) ==
  EditorUpdateShape(d, PromptId(p), Undefined, Undefined,
    MergeProps(GetShape(d, PromptId(p)).props, Obj(<< <<"message", JText(message)>> >>)))

\* the effect on [shape.props.message]: the draft follows a changed prop
DraftAfter(d, p, after) ==
  IF MessageProp(after, p) # MessageProp(d, p) THEN MessageProp(after, p) ELSE draftMessage[p]

\* the body runAgent posts
RunAgentRequest(d, message) ==
  Stringify(Obj(<< <<"message", JText(message)>>,
                   <<"shapes", JArr(getCanvasStateForAgent(d))>> >>))

\* onChange of the textarea (the user types into a prompt shape at rest)
SetDraft(p, text) ==
  /\ ~Busy
  /\ cpc[p] = "idle"
  /\ runs < MaxRuns
  /\ text # draftMessage[p]
  /\ draftMessage' = [draftMessage EXCEPT ![p] = text]
  /\ UNCHANGED <<isRunning, notes, error, cpc, actions, idx, applyCalls, replayFrom, runs>>
  /\ UNCHANGED <<serverVars, docVars>>

\* onBlur of the textarea
Blur(p) ==
  /\ ~Busy
  /\ cpc[p] = "idle"
  /\ runs < MaxRuns
  /\ draftMessage[p] # MessageProp(Doc, p)
  /\ SetDoc(updateProps(Doc, p, draftMessage[p]))
  /\ UNCHANGED <<serverVars, clientVars>>

\* run(), up to the await of the fetch in runAgent
run(p) ==
  /\ ~Busy
  /\ canRun(p)
  /\ runs < MaxRuns
  /\ LET message == Trim(draftMessage[p])
         after == updateProps(Doc, p, message)
     IN  /\ SetDoc(after)
         /\ draftMessage' = [draftMessage EXCEPT ![p] = DraftAfter(Doc, p, after)]
         /\ Arrive(p, RunAgentRequest(after, message))
  /\ isRunning' = [isRunning EXCEPT ![p] = TRUE]
  /\ notes' = [notes EXCEPT ![p] = JStr("")]
  /\ error' = [error EXCEPT ![p] = << >>]
  /\ cpc' = [cpc EXCEPT ![p] = "waiting"]
  /\ actions' = [actions EXCEPT ![p] = << >>]
  /\ idx' = [idx EXCEPT ![p] = 1]
  /\ applyCalls' = [applyCalls EXCEPT ![p] = 0]
  /\ runs' = runs + 1
  /\ UNCHANGED replayFrom

\* the fetch rejects: the request or its response is lost on the way
FetchFail(p) ==
  /\ ~Busy
  /\ cpc[p] = "waiting"
  /\ srvPc[p] \in {"received", "done"}
  /\ srvPc' = [srvPc EXCEPT ![p] = "idle"]
  /\ reqText' = [reqText EXCEPT ![p] = << >>]
  /\ prompt' = [prompt EXCEPT ![p] = NoPrompt]
  /\ invocations' = [invocations EXCEPT ![p] = 0]
  /\ agentOut' = [agentOut EXCEPT ![p] = NoOutcome]
  /\ responses' = [responses EXCEPT ![p] = << >>]
  /\ error' = [error EXCEPT ![p] = <<SegProse>>]
  /\ isRunning' = [isRunning EXCEPT ![p] = FALSE]
  /\ cpc' = [cpc EXCEPT ![p] = "idle"]
  /\ UNCHANGED <<draftMessage, notes, actions, idx, applyCalls, replayFrom, runs, docVars>>

\* res.ok
ResOk(resp) == resp.status >= 200 /\ resp.status <= 299

\* the response is taken for a plan whatever its status
SettleIgnoreStatus(p) ==
  /\ ~Busy
  /\ cpc[p] = "waiting"
  /\ srvPc[p] = "done"
  /\ actions' = [actions EXCEPT ![p] =
                   Coalesce(Get(responses[p][1].body, "actions"), JArr(<< >>)).a]
  /\ idx' = [idx EXCEPT ![p] = 1]
  /\ applyCalls' = [applyCalls EXCEPT ![p] = @ + 1]
  /\ cpc' = [cpc EXCEPT ![p] = "applying"]
  /\ replayFrom' = [replayFrom EXCEPT ![p] = Doc]
  /\ UNCHANGED <<isRunning, error>>
  /\ UNCHANGED <<draftMessage, notes, runs, serverVars, docVars>>

\* the fetch resolves: runAgent throws the text of a response that is not
\* ok, and run() either catches it or enters applyAgentActions
Settle(p) ==
  /\ ~Busy
  /\ cpc[p] = "waiting"
  /\ srvPc[p] = "done"
  /\ LET resp == responses[p][1]
         text == Stringify(resp.body)
     IN  IF ~ResOk(resp)
         THEN /\ error' = [error EXCEPT ![p] = IF text = << >> THEN <<SegProse>> ELSE text]
              /\ isRunning' = [isRunning EXCEPT ![p] = FALSE]
              /\ cpc' = [cpc EXCEPT ![p] = "idle"]
              /\ UNCHANGED <<actions, idx, applyCalls, replayFrom>>
         ELSE /\ actions' = [actions EXCEPT ![p] =
                               Coalesce(Get(resp.body, "actions"), JArr(<< >>)).a]
              /\ idx' = [idx EXCEPT ![p] = 1]
              /\ applyCalls' = [applyCalls EXCEPT ![p] = @ + 1]
              /\ cpc' = [cpc EXCEPT ![p] = "applying"]
              /\ replayFrom' = [replayFrom EXCEPT ![p] = Doc]
              /\ UNCHANGED <<isRunning, error>>
  /\ UNCHANGED <<draftMessage, notes, runs, serverVars, docVars>>

\* one turn of the loop of applyAgentActions
ApplyStep(p) ==
  /\ cpc[p] = "applying"
  /\ idx[p] <= Len(actions[p])
  /\ ~Throws(actions[p][idx[p]])
  /\ SetDoc(ApplyAction(Doc, actions[p][idx[p]]))
  /\ idx' = [idx EXCEPT ![p] = @ + 1]
  /\ UNCHANGED <<draftMessage, isRunning, notes, error, cpc, actions, applyCalls,
                 replayFrom, runs>>
  /\ UNCHANGED serverVars

\* a throw in the loop that run() catches without a finally: the error is
\* shown and isRunning stays as it is
ApplyThrowNoFinally(p, rolledBack) ==
  /\ cpc[p] = "applying"
  /\ idx[p] <= Len(actions[p])
  /\ Throws(actions[p][idx[p]])
  /\ SetDoc(IF rolledBack THEN [replayFrom[p] EXCEPT !.fresh = fresh] ELSE Doc)
  /\ error' = [error EXCEPT ![p] = <<SegProse>>]
  /\ cpc' = [cpc EXCEPT ![p] = "idle"]
  /\ replayFrom' = [replayFrom EXCEPT ![p] = NoDoc]
  /\ UNCHANGED <<draftMessage, isRunning, notes, actions, idx, applyCalls, runs>>
  /\ UNCHANGED serverVars

\* a turn of the loop throws: the error leaves applyAgentActions through
\* editor.run, which either keeps what the turns before did or takes it
\* back, and run() catches it
ApplyThrow(p, rolledBack) ==
  /\ cpc[p] = "applying"
  /\ idx[p] <= Len(actions[p])
  /\ Throws(actions[p][idx[p]])
  /\ SetDoc(IF rolledBack THEN [replayFrom[p] EXCEPT !.fresh = fresh] ELSE Doc)
  /\ error' = [error EXCEPT ![p] = <<SegProse>>]
  /\ isRunning' = [isRunning EXCEPT ![p] = FALSE]
  /\ cpc' = [cpc EXCEPT ![p] = "idle"]
  /\ replayFrom' = [replayFrom EXCEPT ![p] = NoDoc]
  /\ UNCHANGED <<draftMessage, notes, actions, idx, applyCalls, runs>>
  /\ UNCHANGED serverVars

\* applyAgentActions returns: setNotes(data.notes ?? "") and the finally
ApplyDone(p) ==
  /\ cpc[p] = "applying"
  /\ idx[p] > Len(actions[p])
  /\ notes' = [notes EXCEPT ![p] = Coalesce(Get(responses[p][1].body, "notes"), JStr(""))]
  /\ isRunning' = [isRunning EXCEPT ![p] = FALSE]
  /\ cpc' = [cpc EXCEPT ![p] = "idle"]
  /\ replayFrom' = [replayFrom EXCEPT ![p] = NoDoc]
  /\ UNCHANGED <<draftMessage, error, actions, idx, applyCalls, runs>>
  /\ UNCHANGED <<serverVars, docVars>>

\* what the user types into a prompt shape
DraftPool ==
  << Spaces(1), Spaces(1) \o Chars(2) \o Spaces(1), Chars(MAX_MESSAGE_LENGTH + 1) >>

\* the actions the agent draws its plans from: a plan is a stretch of at
\* most MaxActions actions of the list
Script ==
  << ReplayableActions[1], ReplayableActions[11], ReplayableActions[9],
     ReplayableActions[21], ReplayableActions[18], ReplayableActions[7],
     ReplayableActions[12], ReplayableActions[16], ThrowingActions[1],
     ReplayableActions[2] >>

\* what the agent process of a run may end with
RunOutcomes ==
  << Outcome(0, Stringify(Plan(JArr(<< InvalidActions[1] >>), JStr("ok")))),
     Outcome(0, Stringify(Plan(JArr(<< ReplayableActions[1], InvalidActions[20] >>),
                               JStr("ok")))),
     Outcome(0, <<SegProse>>),
     Outcome(1, Stringify(Plan(JArr(<< ReplayableActions[1] >>), JStr("ok")))) >>

Next ==
  \/ \E p \in Slots :
       /\ ~Busy
       /\ \E i \in 1..Len(DraftPool) : SetDraft(p, DraftPool[i])
  \/ \E p \in Slots : Blur(p)
  \/ \E p \in Slots : run(p)
  \/ \E p \in Slots : POST(p)
  \/ \E p \in Slots :
       /\ srvPc[p] = "agent"
       /\ \E i \in 1..Len(RunOutcomes) : AgentExit(p, RunOutcomes[i].code, RunOutcomes[i].stdout)
  \/ \E p \in Slots :
       /\ srvPc[p] = "agent"
       /\ \E i \in 1..Len(Script) : \E n \in 0..MaxActions :
            /\ i + n - 1 <= Len(Script)
            /\ (n = 0 => i = 1)
            /\ AgentExit(p, 0, Stringify(Plan(JArr(SubSeq(Script, i, i + n - 1)),
                                              JStr("done"))))
  \/ \E p \in Slots : AgentThrow(p)
  \/ \E p \in Slots : FetchFail(p)
  \/ \E p \in Slots : Settle(p)
  \/ \E p \in Slots : ApplyStep(p)
  \/ \E p \in Slots : \E rolledBack \in BOOLEAN : ApplyThrow(p, rolledBack)
  \/ \E p \in Slots : ApplyDone(p)

Spec == Init /\ [][Next]_vars

\* the actions the agent draws its plans from when the runs of one prompt
\* shape are followed to their end: creates, updates, deletes and selects
\* of shapes that are there and that are not, and an action that throws
RunScript ==
  << ReplayableActions[1], ReplayableActions[11], ReplayableActions[21],
     ReplayableActions[18], ReplayableActions[12], ReplayableActions[16],
     ThrowingActions[1], ReplayableActions[2] >>

\* the agent process of the request of p ends: with one of RunOutcomes, with
\* a plan that is a stretch of RunScript, or with a throw
AgentEnds(p) ==
  /\ srvPc[p] = "agent"
  /\ \/ \E i \in 1..Len(RunOutcomes) :
          AgentExit(p, RunOutcomes[i].code, RunOutcomes[i].stdout)
     \/ \E i \in 1..Len(RunScript) : \E n \in 0..MaxActions :
          /\ i + n - 1 <= Len(RunScript)
          /\ (n = 0 => i = 1)
          /\ AgentExit(p, 0, Stringify(Plan(JArr(SubSeq(RunScript, i, i + n - 1)),
                                            JStr("done"))))
     \/ AgentThrow(p)

\* a step of the run of p after run() has sent the request: the endpoint
\* handles it, the agent process ends, the fetch settles, and run() goes on
\* after its await to the end of its try, catch and finally
RunSettles(p) ==
  /\ cpc[p] # "idle"
  /\ \/ POST(p)
     \/ AgentEnds(p)
     \/ FetchFail(p)
     \/ Settle(p)
     \/ ApplyStep(p)
     \/ \E rolledBack \in BOOLEAN : ApplyThrow(p, rolledBack)
     \/ ApplyDone(p)

\* the runs of the first prompt shape on their own
NextRun ==
  \/ \E i \in 1..Len(DraftPool) : SetDraft(1, DraftPool[i])
  \/ Blur(1)
  \/ run(1)
  \/ POST(1)
  \/ AgentEnds(1)
  \/ FetchFail(1)
  \/ Settle(1)
  \/ ApplyStep(1)
  \/ \E rolledBack \in BOOLEAN : ApplyThrow(1, rolledBack)
  \/ ApplyDone(1)

SpecRun == Init /\ [][NextRun]_vars

\* The runs of a prompt shape whose requests settle: a request that was
\* sent is handled, the agent process ends and the promise of fetch
\* settles, and the synchronous code of run() after it is not held up for
\* ever.
FairSpec == SpecRun /\ WF_vars(RunSettles(1))

\* ------------------------------------------------- one replay on its own
\* One run of the first prompt shape, whose agent answers with any plan of
\* up to MaxActions actions of ApplierActions.

\* the actions the applier is checked on
ApplierActions ==
  ReplayableActions
  \o << CreateShape(GeoShape(JStr("z"), Num(10), Num(10), Num(0), Num(50))),
        CreateShape(GeoShape(JStr("shape:h"), Num(10), Num(10), Num(40), Num(0))),
        CreateShape(ArrowShape(JStr("k"), Point(Num(20), Num(30)), Point(Num(260), Num(150)),
                               JArr(<< Binding(JStr("start"), JStr("z"), Undefined),
                                       Binding(JStr("end"), JStr("shape:h"), JNull),
                                       Binding(JStr("start"), JStr("shape:e"), Undefined),
                                       Binding(JStr("end"), JStr("e"), Undefined) >>))),
        ThrowingActions[1] >>

NextOne ==
  \/ /\ draftMessage[1] = << >>
     /\ SetDraft(1, DraftPool[2])
  \/ /\ runs = 0
     /\ run(1)
  \/ POST(1)
  \/ /\ srvPc[1] = "agent"
     /\ \E n \in 0..MaxActions : \E pick \in [1..n -> 1..Len(ApplierActions)] :
          AgentExit(1, 0, Stringify(Plan(JArr([i \in 1..n |-> ApplierActions[pick[i]]]),
                                         JStr("done"))))
  \/ Settle(1)
  \/ ApplyStep(1)
  \/ \E rolledBack \in BOOLEAN : ApplyThrow(1, rolledBack)
  \/ ApplyDone(1)

SpecOne == Init /\ [][NextOne]_vars

\* ------------------------------------------------ claims on the endpoint

Finished(r) == srvPc[r] = "done"
Status(r) == responses[r][1].status
ResponseBody(r) == responses[r][1].body

\* the request body as parsed, and its message field
ParsedRequest(r) == JsonParse(reqText[r])
MessageOf(r) == Get(ParsedRequest(r).v, "message")

\* the body is not JSON, or message is missing, not a string or blank
MalformedInput(r) ==
  \/ ~ParsedRequest(r).ok
  \/ TypeOf(MessageOf(r)) # "string"
  \/ \A i \in 1..Len(MessageOf(r).m) : MessageOf(r).m[i].c = " "

\* message is a string of more than 20000 characters
OversizedInput(r) ==
  /\ ParsedRequest(r).ok
  /\ TypeOf(MessageOf(r)) = "string"
  /\ StrLen(MessageOf(r).m) > MAX_MESSAGE_LENGTH

\* the agent's output gives a plan that validatePlan returns
OutputIsPlan(r) ==
  /\ extractJsonObject(agentOut[r].stdout).ok
  /\ validatePlan(extractJsonObject(agentOut[r].stdout).v) = NoError

\* The status the claim gives a finished request, its cases taken in the
\* order they are listed.
ClaimedStatus(r) ==
  IF MalformedInput(r) THEN 400
  ELSE IF OversizedInput(r) THEN 413
  ELSE IF agentOut[r].kind = "throw" THEN 500
  ELSE IF agentOut[r].code # 0 \/ ~OutputIsPlan(r) THEN 502
  ELSE 200

\* C1: every POST ends with exactly one response, sent when the handler
\* returns and not before; its status is 400 for a body that is no JSON or a
\* message that is missing, no string or blank, else 413 for an oversized
\* message, else 500 when invoking the agent threw, else 502 when the agent
\* exited non-zero or its output is no valid plan, and else the success
\* response, which holds exactly the plan's actions and notes; an error
\* response holds an error field and no actions.
C1_StatusFollowsInputAndOutcome ==
  \A r \in Slots :
    /\ Len(responses[r]) = (IF Finished(r) THEN 1 ELSE 0)
    /\ Finished(r) =>
         /\ Status(r) = ClaimedStatus(r)
         /\ Status(r) = 200 =>
              /\ DOMAIN ResponseBody(r).o = {"actions", "notes"}
              /\ Get(ResponseBody(r), "actions")
                   = Get(extractJsonObject(agentOut[r].stdout).v, "actions")
              /\ Get(ResponseBody(r), "notes")
                   = Get(extractJsonObject(agentOut[r].stdout).v, "notes")
         /\ Status(r) # 200 =>
              /\ HasKey(ResponseBody(r), "error")
              /\ ~HasKey(ResponseBody(r), "actions")

\* a request answered 502 although the agent wrote a valid plan, because it
\* exited non-zero
C1_Witness ==
  /\ Finished(1)
  /\ Status(1) = 502
  /\ agentOut[1].kind = "exit"
  /\ agentOut[1].code # 0
  /\ OutputIsPlan(1)

ActionTypes == {"create_shape", "update_shape", "delete_shape", "select"}

\* the action's _type is not one of the four action types
UnknownActionType(action) ==
  ~(Get(action, "_type").t = "str" /\ Get(action, "_type").s \in ActionTypes)

\* the plan the agent wrote, when its output holds an object with an
\* actions list
WrotePlan(r) ==
  /\ agentOut[r].kind = "exit"
  /\ extractJsonObject(agentOut[r].stdout).ok
  /\ isObject(extractJsonObject(agentOut[r].stdout).v)
  /\ IsArray(Get(extractJsonObject(agentOut[r].stdout).v, "actions"))

PlanOf(r) == extractJsonObject(agentOut[r].stdout).v
PlanActions(r) == Get(PlanOf(r), "actions").a

\* C2: a plan whose actions list holds, at any position, an action of an
\* unknown type is rejected as a whole: validatePlan throws, the request is
\* answered 502 with an error and a detail, and the response holds no
\* actions.
C2_UnknownTypeRejectsPlan ==
  \A r \in Slots :
    (Finished(r) /\ WrotePlan(r)
       /\ \E i \in 1..Len(PlanActions(r)) : UnknownActionType(PlanActions(r)[i]))
    => /\ validatePlan(PlanOf(r)) # NoError
       /\ Status(r) = 502
       /\ HasKey(ResponseBody(r), "error")
       /\ ~HasKey(ResponseBody(r), "actions")
       /\ agentOut[r].code = 0 => Get(ResponseBody(r), "detail").s # NoError

\* the agent exited 0 with a plan whose first action is valid and whose
\* second is of an unknown type, and the request was answered 502
C2_Witness ==
  /\ Finished(1)
  /\ WrotePlan(1)
  /\ agentOut[1].code = 0
  /\ Len(PlanActions(1)) = 2
  /\ ActionError(PlanActions(1)[1]) = NoError
  /\ ~UnknownActionType(PlanActions(1)[1])
  /\ UnknownActionType(PlanActions(1)[2])
  /\ Status(1) = 502

\* -------- the AgentAction union, as the type in agentActions.ts declares it

IsNum(x) == x.t = "num"
IsString(x) == TypeOf(x) = "string"
IsBool(x) == x.t = "bool"
OptNum(x) == x.t = "undefined" \/ IsNum(x)
OptString(x) == x.t = "undefined" \/ IsString(x)
OptBool(x) == x.t = "undefined" \/ IsBool(x)

\* { x: number; y: number }
IsPoint(x) == isObject(x) /\ IsNum(Get(x, "x")) /\ IsNum(Get(x, "y"))

\* a number of [0, 1]
InUnit(q) == QLe(QZero, q) /\ QLe(q, QOne)

\* a point of [0,1] x [0,1]
IsUnitPoint(x) == IsPoint(x) /\ InUnit(Get(x, "x").q) /\ InUnit(Get(x, "y").q)

GeoTypes == {"rectangle", "ellipse", "triangle", "diamond", "cloud", "hexagon", "star"}

\* AgentArrowBinding
FitsBinding(b) ==
  /\ isObject(b)
  /\ (IsStrEq(Get(b, "terminal"), "start") \/ IsStrEq(Get(b, "terminal"), "end"))
  /\ IsString(Get(b, "toId"))
  /\ (Get(b, "normalizedAnchor").t = "undefined" \/ IsUnitPoint(Get(b, "normalizedAnchor")))
  /\ OptBool(Get(b, "isExact"))
  /\ OptBool(Get(b, "isPrecise"))

\* the shape of a create_shape action
FitsShape(shape) ==
  /\ isObject(shape)
  /\ Get(shape, "kind").t = "str"
  /\ OptString(Get(shape, "id"))
  /\ OptString(Get(shape, "color"))
  /\ CASE Get(shape, "kind").s = "geo" ->
            /\ Get(shape, "geo").t = "str" /\ Get(shape, "geo").s \in GeoTypes
            /\ IsNum(Get(shape, "x")) /\ IsNum(Get(shape, "y"))
            /\ OptNum(Get(shape, "w")) /\ OptNum(Get(shape, "h"))
            /\ OptString(Get(shape, "label"))
       [] Get(shape, "kind").s = "text" ->
            /\ IsNum(Get(shape, "x")) /\ IsNum(Get(shape, "y"))
            /\ OptNum(Get(shape, "w"))
            /\ IsString(Get(shape, "text"))
       [] Get(shape, "kind").s = "arrow" ->
            /\ IsPoint(Get(shape, "start")) /\ IsPoint(Get(shape, "end"))
            /\ OptString(Get(shape, "label"))
            /\ \/ Get(shape, "bindings").t = "undefined"
               \/ /\ IsArray(Get(shape, "bindings"))
                  /\ \A i \in 1..Len(Get(shape, "bindings").a) :
                       FitsBinding(Get(shape, "bindings").a[i])
       [] OTHER -> FALSE

\* AgentAction
FitsAgentAction(action) ==
  /\ isObject(action)
  /\ Get(action, "_type").t = "str"
  /\ CASE Get(action, "_type").s = "create_shape" -> FitsShape(Get(action, "shape"))
       [] Get(action, "_type").s = "update_shape" ->
            /\ IsString(Get(action, "id"))
            /\ isObject(Get(action, "patch"))
            /\ OptNum(Get(Get(action, "patch"), "x"))
            /\ OptNum(Get(Get(action, "patch"), "y"))
            /\ Get(Get(action, "patch"), "props").t \in {"undefined", "obj", "arr"}
       [] Get(action, "_type").s = "delete_shape" -> IsString(Get(action, "id"))
       [] Get(action, "_type").s = "select" ->
            /\ IsArray(Get(action, "ids"))
            /\ \A i \in 1..Len(Get(action, "ids").a) : IsString(Get(action, "ids").a[i])
       [] OTHER -> FALSE

\* the agent exited 0 and wrote an object with an actions list and a notes
\* string: whether the plan is returned rests on its actions alone
ActionsDecide(r) ==
  /\ Finished(r)
  /\ WrotePlan(r)
  /\ agentOut[r].code = 0
  /\ IsString(Get(PlanOf(r), "notes"))

\* C3 as claimed: a plan is rejected whenever one of its actions does not
\* fit the AgentAction union.
C3_Original_MalformedFieldRejectsPlan ==
  \A r \in Slots :
    (ActionsDecide(r) /\ \E i \in 1..Len(PlanActions(r)) : ~FitsAgentAction(PlanActions(r)[i]))
    => Status(r) = 502

\* a binding that is no object, or whose terminal or toId is malformed
MalformedBinding(b) ==
  \/ ~isObject(b)
  \/ ~(IsStrEq(Get(b, "terminal"), "start") \/ IsStrEq(Get(b, "terminal"), "end"))
  \/ ~IsString(Get(b, "toId"))

\* the malformed fields validatePlan looks at
CheckedFieldMalformed(action) ==
  \/ ~isObject(action)
  \/ UnknownActionType(action)
  \/ /\ IsStrEq(Get(action, "_type"), "create_shape")
     /\ \/ ~isObject(Get(action, "shape"))
        \/ ~IsString(Get(Get(action, "shape"), "kind"))
        \/ /\ IsStrEq(Get(Get(action, "shape"), "kind"), "arrow")
           /\ ~IsNullish(Get(Get(action, "shape"), "bindings"))
           /\ \/ ~IsArray(Get(Get(action, "shape"), "bindings"))
              \/ \E i \in 1..Len(Get(Get(action, "shape"), "bindings").a) :
                   MalformedBinding(Get(Get(action, "shape"), "bindings").a[i])
  \/ /\ IsStrEq(Get(action, "_type"), "update_shape")
     /\ (~IsString(Get(action, "id")) \/ ~isObject(Get(action, "patch")))
  \/ /\ IsStrEq(Get(action, "_type"), "delete_shape")
     /\ ~IsString(Get(action, "id"))
  \/ /\ IsStrEq(Get(action, "_type"), "select")
     /\ \/ ~IsArray(Get(action, "ids"))
        \/ \E i \in 1..Len(Get(action, "ids").a) : ~IsString(Get(action, "ids").a[i])

\* C3 as amended: a plan is rejected as a whole exactly when one of its
\* actions is malformed in a field validatePlan checks (an action that is
\* no object or has no known _type, a create_shape whose shape is no object
\* or whose kind is no string, an arrow whose bindings is not an array or
\* holds a binding that is no object, has a terminal other than start and
\* end or a toId that is no string, an update_shape whose id is no string
\* or whose patch is no object, a delete_shape whose id is no string, a
\* select whose ids is not an array of strings). Any other plan is returned
\* with all its actions, also those that do not fit the AgentAction union.
C3_CheckedFieldsRejectPlan ==
  \A r \in Slots :
    ActionsDecide(r) =>
      /\ (\E i \in 1..Len(PlanActions(r)) : CheckedFieldMalformed(PlanActions(r)[i]))
           <=> Status(r) = 502
      /\ Status(r) # 502 =>
           /\ Status(r) = 200
           /\ Get(ResponseBody(r), "actions").a = PlanActions(r)

\* a plan of two actions was rejected for a malformed field of its second
\* action, whose _type is known
C3_Witness ==
  /\ ActionsDecide(1)
  /\ Len(PlanActions(1)) = 2
  /\ FitsAgentAction(PlanActions(1)[1])
  /\ ~UnknownActionType(PlanActions(1)[2])
  /\ CheckedFieldMalformed(PlanActions(1)[2])
  /\ Status(1) = 502

\* ---------------------------------------------------- input validation

\* the request went past input validation: the agent process was started
PassedInput(r) == srvPc[r] = "agent" \/ (Finished(r) /\ Status(r) \notin {400, 413})

Handled(r) == srvPc[r] \in {"agent", "done"}

\* the request's message is a string
HasStringMessage(r) == ParsedRequest(r).ok /\ IsString(MessageOf(r))

\* the message holds a character that is no whitespace
NotBlank(message) == \E i \in 1..Len(message) : message[i].c # " "

\* C6 as claimed: a request whose message is a string of 1 to 20000
\* characters is never answered 400 or 413 and the agent is invoked for it.
C6_Original_MessageInRangePasses ==
  \A r \in Slots :
    (Handled(r) /\ HasStringMessage(r)
       /\ StrLen(MessageOf(r).m) >= 1 /\ StrLen(MessageOf(r).m) <= MAX_MESSAGE_LENGTH)
    => PassedInput(r) /\ invocations[r] = 1

\* C6 as amended: a request whose message is a string of 1 to 20000
\* characters, not all of them whitespace, is never answered 400 or 413 and
\* the agent is invoked for it.
C6_NonBlankMessageInRangePasses ==
  \A r \in Slots :
    (Handled(r) /\ HasStringMessage(r) /\ NotBlank(MessageOf(r).m)
       /\ StrLen(MessageOf(r).m) >= 1 /\ StrLen(MessageOf(r).m) <= MAX_MESSAGE_LENGTH)
    => PassedInput(r) /\ invocations[r] = 1

\* a request whose message has exactly 20000 characters went on to the agent
C6_Witness ==
  /\ srvPc[1] = "agent"
  /\ HasStringMessage(1)
  /\ StrLen(MessageOf(1).m) = MAX_MESSAGE_LENGTH
  /\ invocations[1] = 1

\* C7 as claimed: every request whose message is a string longer than 20000
\* characters is answered 413, and the agent is never invoked for it.
C7_Original_OversizedIs413 ==
  \A r \in Slots :
    (Finished(r) /\ HasStringMessage(r) /\ StrLen(MessageOf(r).m) > MAX_MESSAGE_LENGTH)
    => Status(r) = 413 /\ invocations[r] = 0

\* C7 as amended: every request whose message is a string longer than 20000
\* characters is answered 413 when the message holds a character that is
\* no whitespace and 400 when it is all whitespace, and the agent is never
\* invoked for it.
C7_OversizedNonBlankIs413 ==
  \A r \in Slots :
    (Handled(r) /\ HasStringMessage(r) /\ StrLen(MessageOf(r).m) > MAX_MESSAGE_LENGTH)
    => /\ Finished(r)
       /\ Status(r) = (IF NotBlank(MessageOf(r).m) THEN 413 ELSE 400)
       /\ invocations[r] = 0

\* a request whose message has 20001 characters, the last one a blank, was
\* answered 413
C7_Witness ==
  /\ Finished(1)
  /\ HasStringMessage(1)
  /\ StrLen(MessageOf(1).m) = MAX_MESSAGE_LENGTH + 1
  /\ StrLen(Trim(MessageOf(1).m)) = MAX_MESSAGE_LENGTH
  /\ Status(1) = 413

\* ------------------------------------------------------ shapes in the prompt

\* the shapes the request carries: the empty list when the field is absent
\* or no array
RequestShapes(r) ==
  IF IsArray(Get(ParsedRequest(r).v, "shapes")) THEN Get(ParsedRequest(r).v, "shapes").a
  ELSE << >>

\* C8: the CANVAS_STATE of the prompt sent to the agent is the list of the
\* first min(n, MAX_SHAPES_FOR_AGENT) of the request's n shapes, in order.
C8_CanvasStateIsFirstCapShapes ==
  \A r \in Slots :
    PassedInput(r) =>
      LET n == Len(RequestShapes(r))
          kept == IF n < MAX_SHAPES_FOR_AGENT THEN n ELSE MAX_SHAPES_FOR_AGENT
      IN  prompt[r].canvasState
            = Stringify(JArr([i \in 1..kept |-> RequestShapes(r)[i]]))

\* ------------------------------------------------------------- no retries

\* C10: each POST invokes the agent process at most once: exactly once when
\* the request passed input validation, also when the run failed or its
\* output was no plan, and never when the request was answered 400 or 413.
C10_AgentInvokedAtMostOnce ==
  \A r \in Slots :
    /\ invocations[r] <= 1
    /\ PassedInput(r) => invocations[r] = 1
    /\ ~PassedInput(r) => invocations[r] = 0
    /\ (Finished(r) /\ Status(r) \in {500, 502}) => invocations[r] = 1

\* a request was answered 502 after the one run of the agent failed
C10_Witness ==
  /\ Finished(1)
  /\ Status(1) = 502
  /\ agentOut[1].code # 0
  /\ invocations[1] = 1

\* ---------------------------------------------------- claims on the page

\* the response the run of p got is a success built from a plan that
\* validatePlan passed in full, and that plan's actions are the ones replayed
ValidatedSuccess(p) ==
  /\ Finished(p)
  /\ Status(p) = 200
  /\ agentOut[p].kind = "exit"
  /\ agentOut[p].code = 0
  /\ extractJsonObject(agentOut[p].stdout).ok
  /\ validatePlan(PlanOf(p)) = NoError
  /\ actions[p] = PlanActions(p)

\* the request of the last run of p failed: run() caught an error, and not
\* one thrown after a success response
RunFailed(p) == cpc[p] = "idle" /\ error[p] # << >> /\ ~(Finished(p) /\ Status(p) = 200)

\* the document apart from the message prop of the prompt shapes
DocApartFromMessages ==
  [shapes |-> [i \in 1..Len(shapes) |->
                 IF shapes[i].type # "agent-prompt" THEN shapes[i]
                 ELSE [shapes[i] EXCEPT !.props =
                         MergeProps(@, Obj(<< <<"message", JText(<< >>)>> >>))]],
   bindings |-> bindings,
   selection |-> selection]

\* this step is a turn of the loop of applyAgentActions in a run of p: one
\* that applies its action, or one that throws
ReplayStepOf(p) ==
  /\ cpc[p] = "applying"
  /\ idx[p] <= Len(actions[p])
  /\ \/ cpc'[p] = "applying" /\ idx'[p] = idx[p] + 1
     \/ cpc'[p] = "idle" /\ idx'[p] = idx[p] /\ Throws(actions[p][idx[p]])

\* C4: applyAgentActions is called for a run only after the endpoint returned
\* a success response built from a plan that passed validatePlan in full; a
\* run whose request failed (an error status or a failed fetch) has made no
\* call of applyAgentActions; and the document apart from the prompt shapes'
\* message prop (shapes, bindings, selection) changes in no step but a turn
\* of the replay loop of a run with such a success response.
C4_NoApplicationBeforeValidation ==
  /\ [](\A p \in Slots :
          /\ (applyCalls[p] > 0 \/ cpc[p] = "applying") => ValidatedSuccess(p)
          /\ RunFailed(p) => applyCalls[p] = 0)
  /\ [][DocApartFromMessages' # DocApartFromMessages =>
          \E p \in Slots : ReplayStepOf(p) /\ ValidatedSuccess(p)]_vars

\* a run ended in failure on a plan whose first action is a valid create of
\* "a" and whose second action is refused: no shape "a" was made, nothing
\* but a prompt shape's message changed
C4_Witness ==
  \E p \in Slots :
    /\ RunFailed(p)
    /\ Finished(p)
    /\ Status(p) = 502
    /\ agentOut[p].stdout = RunOutcomes[2].stdout
    /\ ~HasShape(Doc, "shape:a")
    /\ shapes # InitShapes
    /\ bindings = << >> /\ selection = {}

\* C5: every arrow binding of the document (all are made by
\* applyAgentActions) has a normalizedAnchor whose x and y lie in [0,1].
C5_BindingAnchorsInUnitSquare ==
  \A i \in 1..Len(bindings) : IsUnitPoint(bindings[i].normalizedAnchor)

\* the action at place j of the plan is a create_shape of a known kind that
\* carries the id X
CreatesWithId(plan, j, X) ==
  /\ IsStrEq(Get(plan[j], "_type"), "create_shape")
  /\ \E kind \in {"geo", "text", "arrow"} : IsStrEq(Get(Get(plan[j], "shape"), "kind"), kind)
  /\ Get(Get(plan[j], "shape"), "id") = JStr(X)

\* the ids create_shape actions of the pools carry
StableIds == {"a", "shape:b", "c"}

\* every use of the name X in the action resolves to the shape with the id
NameResolvesTo(d, action, X, id) ==
  LET type == Get(action, "_type")
      bindingList == Coalesce(Get(Get(action, "shape"), "bindings"), JArr(<< >>)).a
  IN  /\ (IsStrEq(type, "update_shape") /\ Get(action, "id") = JStr(X))
           => toShapeId(X) = id
      /\ (IsStrEq(type, "delete_shape") /\ Get(action, "id") = JStr(X))
           => toShapeId(X) = id
      /\ (IsStrEq(type, "select")
            /\ \E i \in 1..Len(Get(action, "ids").a) : Get(action, "ids").a[i] = JStr(X))
           => id \in SelectedIds(d, Get(action, "ids").a)
      /\ (IsStrEq(type, "create_shape") /\ IsStrEq(Get(Get(action, "shape"), "kind"), "arrow"))
           => \A i \in 1..Len(bindingList) :
                Get(bindingList[i], "toId") = JStr(X)
                  => ensureShapeId(Get(bindingList[i], "toId").s) = id

\* C9: when the replay of a plan comes to an action that names the id X of
\* an earlier create_shape of the same plan, whose shape is still in the
\* document, the action resolves X to that shape.
C9_StableIdResolves ==
  \A p \in Slots :
    (cpc[p] = "applying" /\ idx[p] <= Len(actions[p])) =>
      \A j \in 1..(idx[p] - 1) : \A X \in StableIds :
        (CreatesWithId(actions[p], j, X) /\ HasShape(Doc, WithNewId(Doc, JStr(X)).id))
          => NameResolvesTo(Doc, actions[p][idx[p]], X, WithNewId(Doc, JStr(X)).id)

\* the document after the first n of the actions were applied one after
\* the other, in list order, each to the document the one before left
RECURSIVE AppliedInOrder(_, _, _)
AppliedInOrder(d, plan, n) ==
  IF n = 0 THEN d ELSE ApplyAction(AppliedInOrder(d, plan, n - 1), plan[n])

\* C11: each action of a successfully returned plan is applied exactly once
\* and in list order, each to the document as the actions before it left
\* it: during the replay the document is the one the replay started from
\* with the actions before the current one applied in order, a turn of the
\* loop applies the current action and moves to the next, and when the run
\* has ended every action of the plan has had its turn.
C11_EveryActionAppliedOnceInOrder ==
  \A p \in Slots :
    /\ cpc[p] = "applying" =>
         /\ actions[p] = PlanActions(p)
         /\ idx[p] \in 1..(Len(actions[p]) + 1)
         /\ Doc = AppliedInOrder(replayFrom[p], actions[p], idx[p] - 1)
    /\ (cpc[p] = "idle" /\ applyCalls[p] > 0) =>
         /\ applyCalls[p] = 1
         /\ actions[p] = PlanActions(p)
         /\ idx[p] = Len(actions[p]) + 1

\* the candidate plan as C12 words it: null for blank output, the parse of
\* the whole trimmed output when that is JSON, else the parse of the span
\* from the first "{" to the last "}"; "none" when there is no such span or
\* the span is no JSON
CandidatePlan(out) ==
  LET trimmed == TextTrim(out)
      isOpen(i) == trimmed[i].k = "lbrace" \/ (trimmed[i].k = "json" /\ trimmed[i].v.t = "obj")
      isClose(i) == trimmed[i].k = "rbrace" \/ (trimmed[i].k = "json" /\ trimmed[i].v.t = "obj")
      hasSpan == \E i, j \in 1..Len(trimmed) :
                   /\ isOpen(i) /\ isClose(j)
                   /\ i < j \/ (i = j /\ trimmed[i].k = "json")
      first == CHOOSE i \in 1..Len(trimmed) :
                 isOpen(i) /\ \A k \in 1..(i - 1) : ~isOpen(k)
      last == CHOOSE j \in 1..Len(trimmed) :
                isClose(j) /\ \A k \in (j + 1)..Len(trimmed) : ~isClose(k)
      span == SubSeq(trimmed, first, last)
  IN  IF trimmed = << >> THEN [kind |-> "value", v |-> JNull]
      ELSE IF JsonParse(trimmed).ok THEN [kind |-> "value", v |-> JsonParse(trimmed).v]
      ELSE IF hasSpan /\ JsonParse(span).ok THEN [kind |-> "value", v |-> JsonParse(span).v]
      ELSE [kind |-> "none", v |-> Undefined]

\* the agent process of the request ended with exit code 0
AgentExitedZero(r) == Finished(r) /\ agentOut[r].kind = "exit" /\ agentOut[r].code = 0

\* C12: the candidate plan is the parse of the whole trimmed output when
\* that is JSON, else the parse of the span from the first "{" to the last
\* "}", and null for blank output. When there is no candidate (no span, or
\* a span that does not parse) or the candidate is null or no object, the
\* request ends in a 502 response without actions; a success response
\* holds the actions and the notes of the candidate.
C12_NoCandidatePlanIs502 ==
  \A r \in Slots :
    AgentExitedZero(r) =>
      LET candidate == CandidatePlan(agentOut[r].stdout)
      IN  /\ (candidate.kind = "none" \/ candidate.v.t # "obj") =>
               /\ Status(r) = 502
               /\ HasKey(ResponseBody(r), "error")
               /\ ~HasKey(ResponseBody(r), "actions")
          /\ Status(r) = 200 =>
               /\ candidate.kind = "value"
               /\ candidate.v.t = "obj"
               /\ Get(ResponseBody(r), "actions") = Get(candidate.v, "actions")
               /\ Get(ResponseBody(r), "notes") = Get(candidate.v, "notes")

\* the agent wrote a valid plan after a brace pair in prose: the span from
\* the first "{" to the last "}" is no JSON, the request was answered 502
C12_Witness ==
  /\ AgentExitedZero(1)
  /\ agentOut[1].stdout = Wrap("braces", Plan(JArr(<< ReplayableActions[1] >>), JStr("ok")))
  /\ CandidatePlan(agentOut[1].stdout).kind = "none"
  /\ Status(1) = 502

\* this step is the turn of the replay loop of p for a create_shape of an
\* arrow, and the turn did not throw
ArrowTurn(p) ==
  /\ cpc[p] = "applying"
  /\ idx[p] <= Len(actions[p])
  /\ idx'[p] = idx[p] + 1
  /\ IsStrEq(Get(actions[p][idx[p]], "_type"), "create_shape")
  /\ IsStrEq(Get(Get(actions[p][idx[p]], "shape"), "kind"), "arrow")

\* the bindings the step added to the document
BindingsMade == SubSeq(bindings', Len(bindings) + 1, Len(bindings'))

\* q brought into [0, 1]
Clamp01(q) == IF q.n < 0 THEN QZero ELSE IF q.n > q.d THEN QOne ELSE q

\* the anchor C13 gives a point against the page bounds of a target
AnchorOfPoint(d, targetId, point) ==
  LET box == EditorGetShapePageBounds(d, targetId)
  IN  IF ~box.ok \/ box.w = QZero \/ box.h = QZero
      THEN Point(JNum(Q(1, 2)), JNum(Q(1, 2)))
      ELSE Point(JNum(Clamp01(QDiv(QSub(Get(point, "x").q, box.x), box.w))),
                 JNum(Clamp01(QDiv(QSub(Get(point, "y").q, box.y), box.h))))

\* the bindings listed in a create_shape action of an arrow
ListedBindings(action) == Coalesce(Get(Get(action, "shape"), "bindings"), JArr(<< >>)).a

\* the listed binding is one the applier makes: its target is in the
\* document once the arrow is, and is no prompt shape
BindingIsMade(d, binding) ==
  /\ HasShape(d, ensureShapeId(Get(binding, "toId").s))
  /\ GetShape(d, ensureShapeId(Get(binding, "toId").s)).type # "agent-prompt"

\* C13: a binding listed without a normalizedAnchor is made with the anchor
\* computed from the arrow's own point of that terminal (start for "start",
\* end for "end") against the page bounds of the target,
\* (clamp01((px - bx) / w), clamp01((py - by) / h)), and with (1/2, 1/2)
\* when the target has no bounds or its width or height is 0.
C13_ComputedAnchorFromTerminalPoint ==
  [][\A p \in Slots :
       ArrowTurn(p) =>
         LET shape == Get(actions[p][idx[p]], "shape")
             listed == ListedBindings(actions[p][idx[p]])
             arrowId == WithNewId(Doc, Get(shape, "id")).id
         IN  \A i \in 1..Len(listed) :
               (IsNullish(Get(listed[i], "normalizedAnchor")) /\ BindingIsMade(Doc', listed[i])) =>
                 LET targetId == ensureShapeId(Get(listed[i], "toId").s)
                     terminal == Get(listed[i], "terminal").s
                     point == IF terminal = "start" THEN Get(shape, "start")
                              ELSE Get(shape, "end")
                     mine == {k \in 1..Len(BindingsMade) :
                                /\ BindingsMade[k].fromId = arrowId
                                /\ BindingsMade[k].toId = targetId
                                /\ BindingsMade[k].terminal = terminal}
                 IN  /\ mine # {}
                     /\ \A k \in mine :
                          BindingsMade[k].normalizedAnchor = AnchorOfPoint(Doc', targetId, point)
    ]_vars

\* the arrow "k" from (20,30) to (260,150) was bound without anchors to the
\* geo "z" of width 0, anchor (1/2,1/2), and by both ends to the geo
\* "shape:e" at (100,0) of 200 by 120: start (0,1/4), x clamped from below,
\* and end (4/5,1), y clamped from above
C13_Witness ==
  /\ cpc[1] = "idle" /\ applyCalls[1] = 1 /\ error[1] = << >>
  /\ \E i, j, k \in 1..Len(bindings) :
       /\ bindings[i].fromId = "shape:k" /\ bindings[i].toId = "shape:z"
       /\ bindings[i].normalizedAnchor = Point(JNum(Q(1, 2)), JNum(Q(1, 2)))
       /\ bindings[j].fromId = "shape:k" /\ bindings[j].toId = "shape:e"
       /\ bindings[j].terminal = "start"
       /\ bindings[j].normalizedAnchor = Point(JNum(Q(0, 1)), JNum(Q(1, 4)))
       /\ bindings[k].fromId = "shape:k" /\ bindings[k].toId = "shape:e"
       /\ bindings[k].terminal = "end"
       /\ bindings[k].normalizedAnchor = Point(JNum(Q(4, 5)), JNum(Q(1, 1)))

\* the action is a create_shape of a known kind that makes the shape id
CreatesShape(action, id) ==
  /\ IsStrEq(Get(action, "_type"), "create_shape")
  /\ \E kind \in {"geo", "text", "arrow"} : IsStrEq(Get(Get(action, "shape"), "kind"), kind)
  /\ Get(Get(action, "shape"), "id").t = "str"
  /\ Get(Get(action, "shape"), "id").s # ""
  /\ ensureShapeId(Get(Get(action, "shape"), "id").s) = id

\* the action is a create_shape of an arrow that lists a binding to the shape
ListsBindingTo(action, id) ==
  /\ IsStrEq(Get(action, "_type"), "create_shape")
  /\ IsStrEq(Get(Get(action, "shape"), "kind"), "arrow")
  /\ \E i \in 1..Len(ListedBindings(action)) :
       ensureShapeId(Get(ListedBindings(action)[i], "toId").s) = id

\* C14: the turn of the replay loop for a create_shape of an arrow makes
\* the arrow, keeps the bindings there were, and adds one binding for each
\* listed binding whose target is in the document and is no agent-prompt
\* shape, and none for the others. So every binding a replay has made goes
\* to a shape that was in the document before the replay or was created by
\* an action listed before the arrow's: an arrow listed before the
\* create_shape of its target has no binding to it.
C14_BindingOnlyToPresentShape ==
  /\ [][\A p \in Slots :
          ArrowTurn(p) =>
            LET shape == Get(actions[p][idx[p]], "shape")
                listed == ListedBindings(actions[p][idx[p]])
                arrowId == WithNewId(Doc, Get(shape, "id")).id
                matches(k, i) ==
                  /\ BindingsMade[k].fromId = arrowId
                  /\ BindingsMade[k].toId = ensureShapeId(Get(listed[i], "toId").s)
                  /\ BindingsMade[k].terminal = Get(listed[i], "terminal").s
            IN  /\ HasShape(Doc', arrowId)
                /\ GetShape(Doc', arrowId).type = "arrow"
                /\ Len(bindings') >= Len(bindings)
                /\ SubSeq(bindings', 1, Len(bindings)) = bindings
                /\ Len(BindingsMade)
                     = Cardinality({i \in 1..Len(listed) : BindingIsMade(Doc', listed[i])})
                /\ \A i \in 1..Len(listed) :
                     BindingIsMade(Doc', listed[i])
                       <=> \E k \in 1..Len(BindingsMade) : matches(k, i)
       ]_vars
  /\ [](\A p \in Slots :
          applyCalls[p] = 1 =>
            \A k \in 1..Len(bindings) :
              \E i \in 1..(idx[p] - 1) :
                /\ ListsBindingTo(actions[p][i], bindings[k].toId)
                /\ \/ HasShape([Doc EXCEPT !.shapes = InitShapes], bindings[k].toId)
                   \/ \E j \in 1..(i - 1) : CreatesShape(actions[p][j], bindings[k].toId))

\* the plan lists the arrow "c", bound to "a" and to "shape:b", before the
\* create_shape of "a": the replay made the arrow and then the shape
\* "shape:a", and no binding
C14_Witness ==
  /\ cpc[1] = "idle" /\ applyCalls[1] = 1 /\ error[1] = << >>
  /\ actions[1] = << ReplayableActions[6], ReplayableActions[1] >>
  /\ HasShape(Doc, "shape:c")
  /\ HasShape(Doc, "shape:a")
  /\ bindings = << >>

\* the replay of p is at an update_shape or delete_shape whose id is the id
\* of no shape of the document
AtMissingTarget(p) ==
  /\ cpc[p] = "applying"
  /\ idx[p] <= Len(actions[p])
  /\ \E type \in {"update_shape", "delete_shape"} :
       IsStrEq(Get(actions[p][idx[p]], "_type"), type)
  /\ ~HasShape(Doc, Get(actions[p][idx[p]], "id").s)

\* C15: the turn of the replay loop for an update_shape or delete_shape
\* whose id names no shape of the document changes no shape, binding or
\* selection and sets no error, and the replay goes on with the next action
\* of the same plan; a replay that ended before the end of its plan did not
\* end at an update_shape or delete_shape.
C15_MissingTargetIsNoOp ==
  /\ [][\A p \in Slots :
          AtMissingTarget(p) =>
            /\ shapes' = shapes
            /\ bindings' = bindings
            /\ selection' = selection
            /\ error' = error
            /\ isRunning'[p]
            /\ cpc'[p] = "applying"
            /\ actions'[p] = actions[p]
            /\ idx'[p] = idx[p] + 1
       ]_vars
  /\ [](\A p \in Slots :
          (cpc[p] = "idle" /\ applyCalls[p] = 1 /\ idx[p] <= Len(actions[p])) =>
            /\ ~IsStrEq(Get(actions[p][idx[p]], "_type"), "update_shape")
            /\ ~IsStrEq(Get(actions[p][idx[p]], "_type"), "delete_shape"))

\* a plan that deletes "shape:zz", which is no shape, and then creates
\* "shape:b" was replayed to its end: the shape was added and nothing else
\* changed
C15_Witness ==
  /\ cpc[1] = "idle" /\ applyCalls[1] = 1 /\ error[1] = << >>
  /\ actions[1] = << ReplayableActions[19], ReplayableActions[2] >>
  /\ idx[1] = 3
  /\ HasShape(Doc, "shape:b")
  /\ Len(shapes) = Len(InitShapes) + 1
  /\ bindings = << >> /\ selection = {}

\* the step ends a run of p: isRunning goes from true to false
RunEnds(p) == isRunning[p] /\ ~isRunning'[p]

\* the run of p that ends in this step has replayed its whole plan
ReplayedToTheEnd(p) ==
  /\ cpc[p] = "applying"
  /\ idx[p] = Len(actions[p]) + 1

\* C16: once run() has set isRunning, it is set back to false when the
\* request has settled, whatever the outcome (a success, an error status,
\* a failed fetch, a throw while the actions are applied). While a run is
\* under way error and notes are empty; the step that ends a run either
\* follows a replay that reached the end of its plan, and leaves error
\* empty, or leaves a non-empty error and empty notes.
C16_RunLeavesRunningState ==
  /\ \A p \in Slots : isRunning[p] ~> ~isRunning[p]
  /\ [](\A p \in Slots :
          /\ isRunning[p] <=> cpc[p] # "idle"
          /\ isRunning[p] => (error[p] = << >> /\ notes[p] = JStr(""))
          /\ error[p] # << >> => notes[p] = JStr(""))
  /\ [][\A p \in Slots :
          RunEnds(p) =>
            IF ReplayedToTheEnd(p)
            THEN error'[p] = << >>
            ELSE error'[p] # << >> /\ notes'[p] = JStr("")
       ]_vars

\* a run has ended on a throw in the middle of its plan: not running, an
\* error shown, no notes
C16_Witness ==
  \E p \in Slots :
    /\ ~isRunning[p]
    /\ cpc[p] = "idle"
    /\ applyCalls[p] = 1
    /\ idx[p] <= Len(actions[p])
    /\ Throws(actions[p][idx[p]])
    /\ error[p] # << >>
    /\ notes[p] = JStr("")

\* the step sends a request of the prompt shape p to the endpoint
StartsRequest(p) ==
  /\ srvPc'[p] = "received"
  /\ srvPc[p] # "received" \/ reqText'[p] # reqText[p]

\* the request of p is at the endpoint and not answered yet
InFlight(p) == srvPc[p] \in {"received", "agent"}

\* C17: a request of a prompt shape is sent only by a run that starts while
\* no run of that shape is under way and the draft is not blank; a request
\* that is not answered yet belongs to the one run of its shape that waits
\* for it, so a shape has at most one request in flight; and the message
\* of every request sent is not blank.
C17_OneRequestPerPromptShape ==
  /\ [][\A p \in Slots :
          StartsRequest(p) =>
            /\ ~isRunning[p]
            /\ cpc[p] = "idle"
            /\ ~InFlight(p)
            /\ NotBlank(draftMessage[p])
            /\ isRunning'[p]
       ]_vars
  /\ [](\A p \in Slots :
          /\ InFlight(p) => (isRunning[p] /\ cpc[p] = "waiting")
          /\ srvPc[p] # "idle" => (HasStringMessage(p) /\ NotBlank(MessageOf(p).m)))

\* the response of a run is there and run() has not gone on yet, the draft
\* is not blank and another run could still be started on the page: the
\* Run trigger of the shape does nothing
C17_Witness ==
  \E p \in Slots :
    /\ isRunning[p]
    /\ cpc[p] = "waiting"
    /\ srvPc[p] = "done"
    /\ NotBlank(draftMessage[p])
    /\ runs < MaxRuns
    /\ ~Busy
    /\ ~canRun(p)
    /\ ~ENABLED run(p)

\* C18: the actions of one plan are applied as one batch. At most one
\* replay is under way at a time; while the replay of p is under way the
\* document is the one the replay began with, with the actions of p's plan
\* before the current one applied in order; and every step taken then that
\* touches the document or the page state of a prompt shape is a turn of
\* p's own replay.
C18_PlanAppliedAsOneBatch ==
  /\ [](\A p, q \in Slots : (cpc[p] = "applying" /\ cpc[q] = "applying") => p = q)
  /\ [](\A p \in Slots :
          cpc[p] = "applying" =>
            Doc = AppliedInOrder(replayFrom[p], actions[p], idx[p] - 1))
  /\ [][\A p \in Slots :
          (cpc[p] = "applying" /\ idx[p] <= Len(actions[p])) =>
            /\ <<docVars, clientVars>>' # <<docVars, clientVars>> => ReplayStepOf(p)
            /\ \A q \in Slots \ {p} :
                 <<cpc[q], idx[q], actions[q], applyCalls[q]>>'
                   = <<cpc[q], idx[q], actions[q], applyCalls[q]>>
       ]_vars

\* the runs of two prompt shapes overlap: the plan of q was replayed while
\* the request of p was under way, so the replay of p, now between the
\* first and the last action of its plan, began with a document that is not
\* the one of the snapshot p's request carries
C18_Witness ==
  \E p, q \in Slots :
    /\ p # q
    /\ cpc[p] = "applying"
    /\ idx[p] = 2
    /\ Len(actions[p]) = 2
    /\ cpc[q] = "idle"
    /\ applyCalls[q] = 1
    /\ Len(actions[q]) = 2
    /\ RequestShapes(p) # getCanvasStateForAgent(replayFrom[p])

====
